---- MODULE Spec2Model ----
(***************************************************************************)
(* OR-BIT clinical dashboard: the view state of its React components and   *)
(* the handlers, timers and pure helpers that change or read it.           *)
(*                                                                         *)
(* Each component is independent of the others (no shared state), so each  *)
(* gets its own next-state relation and specification over its own         *)
(* variables; the variables of the other components stay as constructed.   *)
(*                                                                         *)
(* Numbers: vitals are modelled as integers in the unit of the source      *)
(* (mmHg, bpm, %); times are milliseconds as returned by Date.now(),       *)
(* counted from the moment the page was loaded.                            *)
(***************************************************************************)
EXTENDS Integers, Sequences, FiniteSets, TLC

VARIABLES
    \* ---- pages/index.tsx (CompleteORBIT) ----
    vitals,          \* useState<VitalsData[]>([])
    status,          \* useState('checking...')
    alerts,          \* useState<Alert[]>([])
    now,             \* Date.now() at the next fetchData call
    alertsCreated,   \* history: how many alerts checkForAlerts has created
    \* ---- components/AlertsPanel.tsx ----
    events,              \* the events prop
    alertRules,          \* useState<AlertRule[]>([...six rules...])
    acknowledgedAlerts,  \* useState<Set<string>>(new Set())
    panelThrew,          \* whether the last render of the panel threw
    \* ---- components/ChatPanel.tsx ----
    messages,        \* useState<ChatMessage[]>([greeting])
    inputMessage,    \* useState('')
    isLoading,       \* useState(false)
    pending,         \* the /api/ask requests awaiting their response
    fetchCount,      \* how many /api/ask requests have been issued
    chatErrors,      \* how many times console.error('Chat error:') has run
    \* ---- setInterval timers of all components ----
    mounted,         \* the components that are mounted
    intervals,       \* the intervals set and not yet cleared
    ticks,           \* how many interval callbacks have run
    lastTick,        \* the owner of the interval whose callback ran last
    \* ---- components/MultiPatientDashboard.tsx ----
    patients,        \* useState<Patient[]>([])
    sortBy,          \* useState('risk')
    filterStatus,    \* useState('ALL')
    \* ---- install.sh ----
    compared,        \* the last call of version_compare and its return status
    requirements,    \* the last run of check_requirements and its findings
    \* ---- calculateRiskScore called on its own ----
    scored,          \* the last patient scored and the score returned
    \* ---- pages/index.tsx: sepsis view ----
    sepsisAssessment, \* useState<SepsisAssessment | null>(null): <<>> or <<assessment>>
    \* ---- pages/index.tsx: useHealthKit ----
    healthKitVitals, \* currentVitals of useHealthKit: <<>> (null) or <<reading>>
    \* ---- components/RiskForecast.tsx ----
    forecastMounted, \* whether the component is mounted
    forecastData,    \* useState<ForecastData | null>(null): <<>> or <<data>>
    loading,         \* useState(false)
    error,           \* useState<string | null>(null): <<>> or <<message>>
    selectedMetric,  \* useState('MAP')
    autoRefresh,     \* useState(true)
    forecastPending, \* the /api/forecast requests awaiting their response
    forecastFetches, \* how many /api/forecast requests have been issued
    refreshIntervals, \* the ids of the refresh intervals set and not cleared
    effectCleanup,   \* the cleanup returned by the last run of the effect: <<>> or <<id>>
    \* ---- utils/healthkit.tsx (HealthKitIntegration) ----
    healthKit,       \* the fields of the instance and its permission requests in flight
    hkLog,           \* the values its async methods have resolved to, oldest first
    \* ---- utils/voiceCommands.ts (VoiceCommandSystem) ----
    voice,           \* the last final transcript and what processCommand did with it
    \* ---- frontend_setup_script.sh: the generated pages/index.tsx (Home) ----
    home,            \* status, vitals, the testConnection calls in flight and the last one completed
    \* ---- part_002: the chat of the main dashboard ----
    dashChat,        \* chatInput, chatMessages, chatLoading and the setTimeout callbacks not yet run
    \* ---- ChatPanel.tsx: sendMessage called directly ----
    lastCall         \* the argument of a direct sendMessage call made while loading

dashVars == <<vitals, status, alerts, now, alertsCreated>>

panelVars == <<events, alertRules, acknowledgedAlerts, panelThrew>>

chatVars == <<messages, inputMessage, isLoading, pending, fetchCount, chatErrors>>

timerVars == <<mounted, intervals, ticks, lastTick>>

wardVars == <<patients, sortBy, filterStatus>>

installVars == <<compared, requirements>>

\* the components modelled first, and those modelled after them
baseVars == <<dashVars, panelVars, chatVars, timerVars, wardVars>>

forecastVars == <<forecastMounted, forecastData, loading, error, selectedMetric,
                  autoRefresh, forecastPending, forecastFetches, refreshIntervals,
                  effectCleanup>>

moreVars == <<installVars, scored, sepsisAssessment, healthKitVitals, forecastVars,
              healthKit, hkLog, voice, home, dashChat, lastCall>>

vars == <<baseVars, moreVars>>

(***************************************************************************)
(* Bounds of the model                                                     *)
(***************************************************************************)
\* polls of fetchData explored with free acknowledgement
MaxPolls == 3
\* polls of fetchData explored in the long-run (retention) specification
LongRun == 7
\* direct calls of checkForAlerts explored in the function-level specification
MaxCalls == 2
\* longest vitals list handed to checkForAlerts in the function-level specification
MaxVitalsLen == 2
\* longest events list handed to AlertsPanel
MaxEvents == 2
\* /api/ask requests issued by ChatPanel
MaxSends == 2
\* longest text typed into the chat input, in tokens
MaxInputLen == 2
\* interval callbacks run in the timer specification
MaxTicks == 2
\* largest version component handed to version_compare in the function-level runs
MaxComponent == 2
\* most alerts of a patient handed to calculateRiskScore on its own
MaxWardAlerts == 2
\* Apple Watch readings delivered by useHealthKit
MaxReadings == 100
\* /api/forecast requests issued by RiskForecast
MaxForecasts == 3
\* calls of the async methods of HealthKitIntegration
MaxHealthKitCalls == 3
\* testConnection calls of the generated landing page
MaxHomePolls == 3
\* setTimeout callbacks scheduled by the chat of the main dashboard
MaxChatTimers == 3

(***************************************************************************)
(* Program constants                                                       *)
(***************************************************************************)
PollPeriodMs == 5000
SimulatedCount == 20
SampleSpacingMs == 60000
KeepAlerts == 10
MapLow == 65
HrHigh == 100
Spo2Low == 95
OneHourMs == 3600000
KeepReadings == 50

(***************************************************************************)
(* Helpers on sequences                                                    *)
(***************************************************************************)
Max(a, b) == IF a >= b THEN a ELSE b

Min(a, b) == IF a <= b THEN a ELSE b

\* Array.prototype.slice(-n) for n > 0: the last n elements, or all of them
SliceLast(s, n) == SubSeq(s, Max(1, Len(s) - n + 1), Len(s))

(***************************************************************************)
(* pages/index.tsx: vitals samples                                         *)
(***************************************************************************)
VitalsSample(ts, map, hr, spo2, src) ==
    [timestamp |-> ts, MAP |-> map, HR |-> hr, SpO2 |-> spo2,
     RR |-> 16, Temp |-> 98, EtCO2 |-> 38, source |-> src]

\* The values the simulator of fetchData can produce for the latest sample:
\* MAP = 70 + random*30 in [70,100), HR = 65 + random*40 in [65,105),
\* SpO2 = 94 + random*6 in [94,100); random() is in [0,1).
\* Representatives on both sides of every threshold the range straddles.
SimulatedMAP == {70}
SimulatedHR == {100, 101}
SimulatedSpO2 == {94, 95}

\* simulatedVitals of fetchData called at time t with latest readings m, h, s:
\* 20 samples one minute apart, the latest one minute before t.
SimulatedVitals(t, m, h, s) ==
    [j \in 1..SimulatedCount |->
        IF j = SimulatedCount
        THEN VitalsSample(t - SampleSpacingMs, m, h, s, "Simulation")
        ELSE VitalsSample(t - (SimulatedCount + 1 - j) * SampleSpacingMs,
                          85, 80, 97, "Simulation")]

(***************************************************************************)
(* pages/index.tsx: checkForAlerts                                         *)
(***************************************************************************)
NewAlert(prefix, t, type, text, value, sev, ts) ==
    [id |-> <<prefix, t>>, type |-> type, description |-> <<text, value>>,
     severity |-> sev, timestamp |-> ts, acknowledged |-> FALSE]

\* variant: the MAP comparison written <= instead of <
NewAlertsFor_InclusiveMap(latest, t) ==
    (IF latest.MAP <= MapLow
     THEN <<NewAlert("MAP", t, "HYPOTENSION", "MAP dropped to", latest.MAP,
                     "HIGH", latest.timestamp)>>
     ELSE <<>>)
    \o
    (IF latest.HR > HrHigh
     THEN <<NewAlert("HR", t, "TACHYCARDIA", "Heart rate elevated to", latest.HR,
                     "MEDIUM", latest.timestamp)>>
     ELSE <<>>)
    \o
    (IF latest.SpO2 < Spo2Low
     THEN <<NewAlert("SPO2", t, "HYPOXEMIA", "SpO2 decreased to", latest.SpO2,
                     "HIGH", latest.timestamp)>>
     ELSE <<>>)

\* the newAlerts array checkForAlerts builds from the latest sample at time t
NewAlertsFor(latest, t) ==
    (IF latest.MAP < MapLow
     THEN <<NewAlert("MAP", t, "HYPOTENSION", "MAP dropped to", latest.MAP,
                     "HIGH", latest.timestamp)>>
     ELSE <<>>)
    \o
    (IF latest.HR > HrHigh
     THEN <<NewAlert("HR", t, "TACHYCARDIA", "Heart rate elevated to", latest.HR,
                     "MEDIUM", latest.timestamp)>>
     ELSE <<>>)
    \o
    (IF latest.SpO2 < Spo2Low
     THEN <<NewAlert("SPO2", t, "HYPOXEMIA", "SpO2 decreased to", latest.SpO2,
                     "HIGH", latest.timestamp)>>
     ELSE <<>>)

\* variant: setAlerts(prev => [...prev.slice(-1), ...newAlerts])
CheckForAlerts_KeepsOne(prev, vitalsData, t) ==
    IF Len(vitalsData) = 0 THEN prev
    ELSE LET latest == vitalsData[Len(vitalsData)]
             newAlerts == NewAlertsFor(latest, t)
         IN  IF Len(newAlerts) > 0
             THEN SliceLast(prev, 1) \o newAlerts
             ELSE prev

\* the alerts state after checkForAlerts(vitalsData) called at time t
CheckForAlerts(prev, vitalsData, t) ==
    IF Len(vitalsData) = 0 THEN prev
    ELSE LET latest == vitalsData[Len(vitalsData)]
             newAlerts == NewAlertsFor(latest, t)
         IN  IF Len(newAlerts) > 0
             THEN SliceLast(prev, KeepAlerts) \o newAlerts
             ELSE prev

\* how many alerts that call creates
CreatedBy(vitalsData, t) ==
    IF Len(vitalsData) = 0 THEN 0
    ELSE Len(NewAlertsFor(vitalsData[Len(vitalsData)], t))

\* the badge on the Alerts tab
UnacknowledgedCount(as) ==
    Len(SelectSeq(as, LAMBDA a : ~a.acknowledged))

(***************************************************************************)
(* pages/index.tsx: handlers                                               *)
(***************************************************************************)
\* fetchData: runs on mount and then on every tick of the 5 s interval
\* (healthKitConnected is false throughout: see startMonitoring).
FetchData(limit) ==
    /\ now < limit * PollPeriodMs
    /\ \E m \in SimulatedMAP, h \in SimulatedHR, s \in SimulatedSpO2 :
         LET simulatedVitals == SimulatedVitals(now, m, h, s)
         IN  /\ status' = "Backend Connected"
             /\ vitals' = simulatedVitals
             /\ alerts' = CheckForAlerts(alerts, simulatedVitals, now)
             /\ alertsCreated' = alertsCreated + CreatedBy(simulatedVitals, now)
    /\ now' = now + PollPeriodMs
    /\ UNCHANGED <<panelVars, chatVars, timerVars, wardVars, moreVars>>

\* variant: acknowledges the HIGH alerts only
AcknowledgeAll_HighOnly ==
    /\ alerts' = [i \in 1..Len(alerts) |->
                    IF alerts[i].severity = "HIGH"
                    THEN [alerts[i] EXCEPT !.acknowledged = TRUE]
                    ELSE alerts[i]]
    /\ UNCHANGED <<vitals, status, now, alertsCreated, panelVars, chatVars, timerVars, wardVars, moreVars>>

\* the "Acknowledge All" button of the alerts view
AcknowledgeAll ==
    /\ alerts' = [i \in 1..Len(alerts) |-> [alerts[i] EXCEPT !.acknowledged = TRUE]]
    /\ UNCHANGED <<vitals, status, now, alertsCreated, panelVars, chatVars, timerVars, wardVars, moreVars>>

\* variant: matches the alerts to acknowledge by type instead of id
AcknowledgeAlert_ByType(i) ==
    /\ i \in 1..Len(alerts)
    /\ ~alerts[i].acknowledged
    /\ alerts' = [j \in 1..Len(alerts) |->
                    IF alerts[j].type = alerts[i].type
                    THEN [alerts[j] EXCEPT !.acknowledged = TRUE]
                    ELSE alerts[j]]
    /\ UNCHANGED <<vitals, status, now, alertsCreated, panelVars, chatVars, timerVars, wardVars, moreVars>>

\* the ACK button of the i-th alert shown; rendered only while it is unacknowledged
AcknowledgeAlert(i) ==
    /\ i \in 1..Len(alerts)
    /\ ~alerts[i].acknowledged
    /\ alerts' = [j \in 1..Len(alerts) |->
                    IF alerts[j].id = alerts[i].id
                    THEN [alerts[j] EXCEPT !.acknowledged = TRUE]
                    ELSE alerts[j]]
    /\ UNCHANGED <<vitals, status, now, alertsCreated, panelVars, chatVars, timerVars, wardVars, moreVars>>

(***************************************************************************)
(* checkForAlerts called directly, on any vitals list                      *)
(***************************************************************************)
\* readings on both sides of each threshold checkForAlerts compares with
ThresholdMAP == {64, 65}
ThresholdHR == {100, 101}
ThresholdSpO2 == {94, 95}

\* vitals lists of length n ending at time t: any latest sample, and earlier
\* samples that either breach every threshold or none
VitalsListsOfLen(n, t) ==
    IF n = 0 THEN {<<>>}
    ELSE { [j \in 1..n |->
              IF j = n
              THEN VitalsSample(t - SampleSpacingMs, m, h, s, "Monitor")
              ELSE VitalsSample(t - (n + 1 - j) * SampleSpacingMs,
                                e[1], e[2], e[3], "Monitor")] :
           m \in ThresholdMAP, h \in ThresholdHR, s \in ThresholdSpO2,
           e \in {<<50, 130, 85>>, <<85, 80, 97>>} }

VitalsInputs(t) == UNION { VitalsListsOfLen(n, t) : n \in 0..MaxVitalsLen }

\* a caller doing setVitals(vitalsData); checkForAlerts(vitalsData)
CallCheckForAlerts ==
    /\ now < MaxCalls * PollPeriodMs
    /\ \E vitalsData \in VitalsInputs(now) :
         /\ vitals' = vitalsData
         /\ alerts' = CheckForAlerts(alerts, vitalsData, now)
         /\ alertsCreated' = alertsCreated + CreatedBy(vitalsData, now)
    /\ now' = now + PollPeriodMs
    /\ UNCHANGED <<status, panelVars, chatVars, timerVars, wardVars, moreVars>>

(***************************************************************************)
(* components/AlertsPanel.tsx                                              *)
(***************************************************************************)
PatientEvent(ts, type, text, sev) ==
    [timestamp |-> ts, type |-> type, description |-> text,
     severity |-> sev, source |-> "Monitor"]

AlertRule(id, name, enabled, threshold, condition, vital) ==
    [id |-> id, name |-> name, enabled |-> enabled, threshold |-> threshold,
     condition |-> condition, vital |-> vital]

\* the initial value of the alertRules state
DefaultAlertRules ==
    << AlertRule("1", "Hypotension", TRUE, 65, "below", "MAP"),
       AlertRule("2", "Severe Hypotension", TRUE, 55, "below", "MAP"),
       AlertRule("3", "Tachycardia", TRUE, 100, "above", "HR"),
       AlertRule("4", "Severe Tachycardia", TRUE, 120, "above", "HR"),
       AlertRule("5", "Hypoxemia", TRUE, 95, "below", "SpO2"),
       AlertRule("6", "Severe Hypoxemia", TRUE, 90, "below", "SpO2") >>

RuleIds == {"1", "2", "3", "4", "5", "6"}

\* what the settings dialog can hand to updateAlertRule: one field and a
\* new value for it
RuleFields == {"vital", "condition", "threshold"}

RuleValues(field) ==
    IF field = "vital" THEN {"MAP", "HR", "SpO2"}
    ELSE IF field = "condition" THEN {"above", "below", "equal"}
    ELSE {60, 65}

\* { ...rule, ...updates } with updates = { [field]: value }
ApplyUpdate(rule, field, value) ==
    IF field = "vital" THEN [rule EXCEPT !.vital = value]
    ELSE IF field = "condition" THEN [rule EXCEPT !.condition = value]
    ELSE [rule EXCEPT !.threshold = value]

\* the rules after toggleAlertRule(ruleId)
ToggledRules(rules, ruleId) ==
    [i \in 1..Len(rules) |->
        IF rules[i].id = ruleId
        THEN [rules[i] EXCEPT !.enabled = ~rules[i].enabled]
        ELSE rules[i]]

\* the rules after updateAlertRule(ruleId, updates)
UpdatedRules(rules, ruleId, field, value) ==
    [i \in 1..Len(rules) |->
        IF rules[i].id = ruleId
        THEN ApplyUpdate(rules[i], field, value)
        ELSE rules[i]]

\* events a monitor may report around time t: recent ones of each severity
\* and one older than an hour
EventPool(t) ==
    { PatientEvent(t - 60000, "HYPOTENSION", "MAP dropped to 58 mmHg", "HIGH"),
      PatientEvent(t - 120000, "TACHYCARDIA", "HR elevated to 105 bpm", "MEDIUM"),
      PatientEvent(t - 180000, "MEDICATION", "Propofol bolus given", "LOW"),
      PatientEvent(t - 2 * OneHourMs, "HYPOXEMIA", "SpO2 decreased to 91%", "HIGH") }

EventLists(t) ==
    UNION { [1..n -> EventPool(t)] : n \in 0..MaxEvents }

GetEventId(event) == <<event.timestamp, event.type, event.description>>

\* The useMemo callback of processedAlerts, run while the component body is
\* executing at time t.  getEventId is a const declared below the useMemo
\* call, so it is not yet initialised when the callback calls it: the call
\* throws.  The callback reaches the call for a recent event whose severity
\* is HIGH (first filter) or MEDIUM (second filter).
ProcessedAlerts(evs, acked, t) ==
    LET recentEvents ==
            SelectSeq(evs, LAMBDA event : t - event.timestamp < OneHourMs)
        callsGetEventId ==
            \E i \in 1..Len(recentEvents) :
                recentEvents[i].severity \in {"HIGH", "MEDIUM"}
    IN  IF callsGetEventId
        THEN [threw |-> TRUE, active |-> <<>>, warnings |-> <<>>, all |-> <<>>]
        ELSE [threw |-> FALSE,
              active |-> SelectSeq(recentEvents, LAMBDA event :
                            event.severity = "HIGH"
                            /\ GetEventId(event) \notin acked),
              warnings |-> SelectSeq(recentEvents, LAMBDA event :
                            event.severity = "MEDIUM"
                            /\ GetEventId(event) \notin acked),
              all |-> recentEvents]

\* what a render of the panel shows: the alert lists and, in the settings
\* dialog, the rules
PanelRender(evs, rules, acked, t) ==
    [alerts |-> ProcessedAlerts(evs, acked, t), settings |-> rules]

\* the parent renders the panel with a new events list
ReceiveEvents ==
    /\ ~panelThrew
    /\ \E evs \in EventLists(now) :
         /\ events' = evs
         /\ panelThrew' = PanelRender(evs, alertRules, acknowledgedAlerts, now).alerts.threw
    /\ UNCHANGED <<alertRules, acknowledgedAlerts, dashVars, chatVars, timerVars, wardVars, moreVars>>

\* the checkbox of a rule in the settings dialog
ToggleAlertRule(ruleId) ==
    /\ ~panelThrew
    /\ alertRules' = ToggledRules(alertRules, ruleId)
    /\ panelThrew' = PanelRender(events, alertRules', acknowledgedAlerts, now).alerts.threw
    /\ UNCHANGED <<events, acknowledgedAlerts, dashVars, chatVars, timerVars, wardVars, moreVars>>

\* the vital, condition and threshold inputs of a rule in the settings dialog
UpdateAlertRule(ruleId, field, value) ==
    /\ ~panelThrew
    /\ alertRules' = UpdatedRules(alertRules, ruleId, field, value)
    /\ panelThrew' = PanelRender(events, alertRules', acknowledgedAlerts, now).alerts.threw
    /\ UNCHANGED <<events, acknowledgedAlerts, dashVars, chatVars, timerVars, wardVars, moreVars>>

(***************************************************************************)
(* components/ChatPanel.tsx                                                *)
(*                                                                         *)
(* A text is a sequence of tokens; the token " " is white space.  The id   *)
(* and timestamp of a message (Date.now(), new Date()) are not modelled:   *)
(* nothing reads them but the list key and the time label.                 *)
(***************************************************************************)
\* String.prototype.trim
RECURSIVE TrimLeft(_)
TrimLeft(text) ==
    IF text # <<>> /\ Head(text) = " " THEN TrimLeft(Tail(text)) ELSE text

RECURSIVE TrimRight(_)
TrimRight(text) ==
    IF text # <<>> /\ text[Len(text)] = " "
    THEN TrimRight(SubSeq(text, 1, Len(text) - 1))
    ELSE text

Trim(text) == TrimRight(TrimLeft(text))

\* what the user can type into the input
InputTexts == UNION { [1..n -> {" ", "MAP?"}] : n \in 0..MaxInputLen }

\* two of the six QUICK_QUESTIONS
QuickQuestions == { <<"Why is MAP dropping?">>, <<"Review anesthetic depth">> }

Greeting ==
    [role |-> "assistant", content |-> <<"Hello! I'm OR-BIT">>,
     confidence |-> 100, sources |-> <<"OR-BIT Clinical Knowledge Base">>]

UserMessage(content) == [role |-> "user", content |-> Trim(content)]

\* the message of the catch block; confidence in hundredths
ErrorMessage ==
    [role |-> "assistant",
     content |-> <<"I apologize, but I'm currently unable to process your request. Please check the connection and try again.">>,
     confidence |-> 0, sources |-> <<"Error Handler">>]

\* bodies /api/ask may answer with: every field present, or every field
\* missing or falsy
ResponseBodies ==
    { [response |-> <<"Consider a fluid bolus">>, confidence |-> 95,
       hasSources |-> TRUE, sources |-> <<"Guideline">>],
      [response |-> <<>>, confidence |-> 0,
       hasSources |-> FALSE, sources |-> <<>>] }

\* the message built from a parsed response body (the || defaults)
AssistantMessage(data) ==
    [role |-> "assistant",
     content |-> IF data.response # <<>> THEN data.response
                 ELSE <<"I apologize, but I encountered an issue processing your request.">>,
     confidence |-> IF data.confidence # 0 THEN data.confidence ELSE 80,
     sources |-> IF data.hasSources THEN data.sources ELSE <<"Clinical AI Model">>]

\* sendMessage(content) up to the await of fetch
\* variant: sendMessage without the isLoading half of its guard
SendMessage_IgnoresLoading(content) ==
    IF Trim(content) = <<>>
    THEN UNCHANGED chatVars
    ELSE /\ fetchCount < MaxSends
         /\ messages' = Append(messages, UserMessage(content))
         /\ inputMessage' = <<>>
         /\ isLoading' = TRUE
         /\ fetchCount' = fetchCount + 1
         /\ pending' = pending \cup {[n |-> fetchCount + 1, query |-> Trim(content)]}
         /\ UNCHANGED chatErrors

SendMessage(content) ==
    IF Trim(content) = <<>> \/ isLoading
    THEN UNCHANGED chatVars
    ELSE /\ fetchCount < MaxSends
         /\ messages' = Append(messages, UserMessage(content))
         /\ inputMessage' = <<>>
         /\ isLoading' = TRUE
         /\ fetchCount' = fetchCount + 1
         /\ pending' = pending \cup {[n |-> fetchCount + 1, query |-> Trim(content)]}
         /\ UNCHANGED chatErrors

\* typing into the input, which is disabled while loading
TypeInput ==
    /\ ~isLoading
    /\ \E text \in InputTexts : inputMessage' = text
    /\ UNCHANGED <<messages, isLoading, pending, fetchCount, chatErrors>>
    /\ UNCHANGED <<dashVars, panelVars, timerVars, wardVars, moreVars>>

\* the form's onSubmit
HandleSubmit ==
    /\ SendMessage(inputMessage)
    /\ UNCHANGED <<dashVars, panelVars, timerVars, wardVars, moreVars>>

\* a quick-question button, which is disabled while loading
HandleQuickQuestion ==
    /\ ~isLoading
    /\ \E question \in QuickQuestions : SendMessage(question)
    /\ UNCHANGED <<dashVars, panelVars, timerVars, wardVars, moreVars>>

\* the clear button
ClearChat ==
    /\ messages' = <<messages[1]>>
    /\ UNCHANGED <<inputMessage, isLoading, pending, fetchCount, chatErrors>>
    /\ UNCHANGED <<dashVars, panelVars, timerVars, wardVars, moreVars>>

\* variant: the catch block without the finally block
CatchAndFinally_NoFinally(r) ==
    /\ pending' = pending \ {r}
    /\ chatErrors' = chatErrors + 1
    /\ messages' = Append(messages, ErrorMessage)
    /\ UNCHANGED <<isLoading, inputMessage, fetchCount>>

\* the catch block followed by the finally block of sendMessage
CatchAndFinally(r) ==
    /\ pending' = pending \ {r}
    /\ chatErrors' = chatErrors + 1
    /\ messages' = Append(messages, ErrorMessage)
    /\ isLoading' = FALSE
    /\ UNCHANGED <<inputMessage, fetchCount>>

\* fetch rejects: a network error
FetchRejects ==
    /\ \E r \in pending : CatchAndFinally(r)
    /\ UNCHANGED <<dashVars, panelVars, timerVars, wardVars, moreVars>>

\* fetch resolves with a status that is not OK: sendMessage throws
RespondNotOk ==
    /\ \E r \in pending : CatchAndFinally(r)
    /\ UNCHANGED <<dashVars, panelVars, timerVars, wardVars, moreVars>>

\* fetch resolves OK and response.json() rejects: the body is not JSON
RespondBadJson ==
    /\ \E r \in pending : CatchAndFinally(r)
    /\ UNCHANGED <<dashVars, panelVars, timerVars, wardVars, moreVars>>

\* fetch resolves OK with a JSON body
RespondOk ==
    /\ \E r \in pending, data \in ResponseBodies :
         /\ pending' = pending \ {r}
         /\ messages' = Append(messages, AssistantMessage(data))
         /\ isLoading' = FALSE
         /\ UNCHANGED <<inputMessage, fetchCount, chatErrors>>
    /\ UNCHANGED <<dashVars, panelVars, timerVars, wardVars, moreVars>>

(***************************************************************************)
(* setInterval timers                                                      *)
(*                                                                         *)
(* Only the life of each timer is modelled here: what its callback does to *)
(* the state of its component is modelled with that component.             *)
(***************************************************************************)
\* components whose mount effect sets an interval and whose cleanup clears it
Components ==
    { "PatientSummary", "MultiPatientDashboard", "CompleteORBIT",
      "MobileApp", "RiskForecast", "Home" }

\* functions that set an interval and return the function that clears it
Streams == { "useHealthKit.startMonitoring",
             "HealthKitIntegration.startRealtimeStream" }

\* isConnected of useHealthKit: false initially, and set to true only by
\* startMonitoring, which the page calls only when it is already true
HealthKitConnected == FALSE

\* variant: the multi-patient update every second
IntervalPeriod_FastUpdate(owner) ==
    IF owner = "PatientSummary" THEN 30000
    ELSE IF owner = "MultiPatientDashboard" THEN 1000
    ELSE IF owner = "CompleteORBIT"
         THEN (IF HealthKitConnected THEN 10000 ELSE 5000)
    ELSE IF owner = "MobileApp" THEN 10000
    ELSE IF owner = "RiskForecast" THEN 15000
    ELSE IF owner = "Home" THEN 5000
    ELSE IF owner = "useHealthKit.startMonitoring" THEN 3000
    ELSE 5000

\* the second argument of each setInterval call, in ms
IntervalPeriod(owner) ==
    IF owner = "PatientSummary" THEN 30000
    ELSE IF owner = "MultiPatientDashboard" THEN 5000
    ELSE IF owner = "CompleteORBIT"
         THEN (IF HealthKitConnected THEN 10000 ELSE 5000)
    ELSE IF owner = "MobileApp" THEN 10000
    ELSE IF owner = "RiskForecast" THEN 15000
    ELSE IF owner = "Home" THEN 5000
    ELSE IF owner = "useHealthKit.startMonitoring" THEN 3000
    ELSE 5000

SetInterval(owner) == [owner |-> owner, period |-> IntervalPeriod(owner)]

\* the mount effect of a component (autoRefresh of RiskForecast starts true)
MountEffect(c) ==
    /\ c \notin mounted
    /\ mounted' = mounted \cup {c}
    /\ intervals' = intervals \cup {SetInterval(c)}
    /\ UNCHANGED <<ticks, lastTick>>
    /\ UNCHANGED <<dashVars, panelVars, chatVars, wardVars, moreVars>>

\* variant: the effect of PatientSummary returns no cleanup
UnmountCleanup_SummaryLeaks(c) ==
    /\ c \in mounted
    /\ mounted' = mounted \ {c}
    /\ intervals' = IF c = "PatientSummary" THEN intervals
                    ELSE { iv \in intervals : iv.owner # c }
    /\ UNCHANGED <<ticks, lastTick>>
    /\ UNCHANGED <<dashVars, panelVars, chatVars, wardVars, moreVars>>

\* unmount: React runs the cleanup the effect returned, clearInterval(interval)
UnmountCleanup(c) ==
    /\ c \in mounted
    /\ mounted' = mounted \ {c}
    /\ intervals' = { iv \in intervals : iv.owner # c }
    /\ UNCHANGED <<ticks, lastTick>>
    /\ UNCHANGED <<dashVars, panelVars, chatVars, wardVars, moreVars>>

\* a call of startMonitoring / startRealtimeStream (one handle at a time)
StartStream(f) ==
    /\ \A iv \in intervals : iv.owner # f
    /\ intervals' = intervals \cup {SetInterval(f)}
    /\ UNCHANGED <<mounted, ticks, lastTick>>
    /\ UNCHANGED <<dashVars, panelVars, chatVars, wardVars, moreVars>>

\* a call of the function the start returned
StopStream(f) ==
    /\ \E iv \in intervals : iv.owner = f
    /\ intervals' = { iv \in intervals : iv.owner # f }
    /\ UNCHANGED <<mounted, ticks, lastTick>>
    /\ UNCHANGED <<dashVars, panelVars, chatVars, wardVars, moreVars>>

\* the browser runs the callback of an interval that is set
IntervalTick ==
    /\ ticks < MaxTicks
    /\ \E iv \in intervals : lastTick' = iv.owner
    /\ ticks' = ticks + 1
    /\ UNCHANGED <<mounted, intervals>>
    /\ UNCHANGED <<dashVars, panelVars, chatVars, wardVars, moreVars>>

(***************************************************************************)
(* components/MultiPatientDashboard.tsx                                    *)
(*                                                                         *)
(* riskScore is modelled in hundredths (0.3 is 30); admissionTime is in ms *)
(* relative to the mount of the component.                                 *)
(***************************************************************************)
WardVitals(map, hr, spo2) == [MAP |-> map, HR |-> hr, SpO2 |-> spo2]

\* generateVitals(false): MAP in [65,85), HR in [65,95), SpO2 in [95,100]
CalmVitals == { WardVitals(65, 94, 95), WardVitals(84, 65, 100) }

\* generateVitals(true): MAP in [50,70), HR in [80,110), SpO2 in [91,97);
\* readings on both sides of every threshold of calculateRiskScore in range
ConcerningVitals ==
    { WardVitals(m, h, o) : m \in {54, 65}, h \in {100, 101}, o \in {94, 95} }

GenerateVitals(concerning) ==
    IF concerning THEN ConcerningVitals ELSE CalmVitals

WardAlert(id, type, sev, text, ts, ack) ==
    [id |-> id, type |-> type, severity |-> sev, description |-> text,
     timestamp |-> ts, acknowledged |-> ack]

\* samplePatients, with the vitals v[1..4] generateVitals returned
SamplePatients(v) ==
    << [id |-> "PAT-001", name |-> "John Smith", room |-> "OR-1",
        admissionTime |-> -7200000, vitals |-> v[1], alerts |-> <<>>,
        riskScore |-> 30, status |-> "STABLE",
        assignedStaff |-> [surgeon |-> "Dr. Wilson",
                           anesthesiologist |-> "Dr. Chen", nurse |-> "RN Davis"]],
       [id |-> "PAT-002", name |-> "Maria Garcia", room |-> "OR-2",
        admissionTime |-> -3600000, vitals |-> v[2],
        alerts |-> <<WardAlert("ALT-001", "HYPOTENSION", "HIGH",
                               "MAP dropped to 58 mmHg", -300000, FALSE)>>,
        riskScore |-> 75, status |-> "CRITICAL",
        assignedStaff |-> [surgeon |-> "Dr. Johnson",
                           anesthesiologist |-> "Dr. Lee", nurse |-> "RN Thompson"]],
       [id |-> "PAT-003", name |-> "Robert Johnson", room |-> "OR-3",
        admissionTime |-> -1800000, vitals |-> v[3],
        alerts |-> <<WardAlert("ALT-002", "TACHYCARDIA", "MEDIUM",
                               "HR elevated to 105 bpm", -600000, TRUE)>>,
        riskScore |-> 40, status |-> "WARNING",
        assignedStaff |-> [surgeon |-> "Dr. Brown",
                           anesthesiologist |-> "Dr. Kim", nurse |-> "RN Martinez"]],
       [id |-> "PAT-004", name |-> "Sarah Wilson", room |-> "OR-4",
        admissionTime |-> -2700000, vitals |-> v[4], alerts |-> <<>>,
        riskScore |-> 20, status |-> "STABLE",
        assignedStaff |-> [surgeon |-> "Dr. Taylor",
                           anesthesiologist |-> "Dr. Anderson", nurse |-> "RN White"]] >>

\* variant: every alert counts, acknowledged or not
CalculateRiskScore_CountsAll(patient) ==
    LET v == patient.vitals
        score ==
            (IF v.MAP < 65 THEN 30 ELSE 0) + (IF v.MAP < 55 THEN 20 ELSE 0)
          + (IF v.HR > 100 THEN 20 ELSE 0) + (IF v.HR > 120 THEN 20 ELSE 0)
          + (IF v.SpO2 < 95 THEN 30 ELSE 0) + (IF v.SpO2 < 90 THEN 30 ELSE 0)
          + Len(patient.alerts) * 10
    IN  Min(100, score)

\* calculateRiskScore(patient), in hundredths
CalculateRiskScore(patient) ==
    LET v == patient.vitals
        score ==
            (IF v.MAP < 65 THEN 30 ELSE 0) + (IF v.MAP < 55 THEN 20 ELSE 0)
          + (IF v.HR > 100 THEN 20 ELSE 0) + (IF v.HR > 120 THEN 20 ELSE 0)
          + (IF v.SpO2 < 95 THEN 30 ELSE 0) + (IF v.SpO2 < 90 THEN 30 ELSE 0)
          + Len(SelectSeq(patient.alerts, LAMBDA a : ~a.acknowledged)) * 10
    IN  Min(100, score)

StatusOrder(st) ==
    IF st = "EMERGENCY" THEN 0
    ELSE IF st = "CRITICAL" THEN 1
    ELSE IF st = "WARNING" THEN 2
    ELSE 3

\* a.room.localeCompare(b.room) for the rooms OR-1 .. OR-4
RoomRank(room) ==
    IF room = "OR-1" THEN 1
    ELSE IF room = "OR-2" THEN 2
    ELSE IF room = "OR-3" THEN 3
    ELSE 4

\* variant: the risk comparison written a - b
CompareBy_RiskAscending(by, a, b) ==
    IF by = "room" THEN RoomRank(a.room) - RoomRank(b.room)
    ELSE IF by = "status" THEN StatusOrder(a.status) - StatusOrder(b.status)
    ELSE IF by = "risk" THEN a.riskScore - b.riskScore
    ELSE IF by = "time" THEN a.admissionTime - b.admissionTime
    ELSE 0

\* the comparator handed to sort: negative when a goes first
CompareBy(by, a, b) ==
    IF by = "room" THEN RoomRank(a.room) - RoomRank(b.room)
    ELSE IF by = "status" THEN StatusOrder(a.status) - StatusOrder(b.status)
    ELSE IF by = "risk" THEN b.riskScore - a.riskScore
    ELSE IF by = "time" THEN a.admissionTime - b.admissionTime
    ELSE 0

\* x put into the sorted list s behind every element that does not go after it
RECURSIVE InsertSorted(_, _, _)
InsertSorted(s, x, by) ==
    IF s = <<>> THEN <<x>>
    ELSE IF CompareBy(by, Head(s), x) <= 0
         THEN <<Head(s)>> \o InsertSorted(Tail(s), x, by)
         ELSE <<x>> \o s

\* Array.prototype.sort with that comparator (a stable sort)
RECURSIVE SortBy(_, _)
SortBy(s, by) ==
    IF s = <<>> THEN <<>>
    ELSE InsertSorted(SortBy(SubSeq(s, 1, Len(s) - 1), by), s[Len(s)], by)

\* sortedAndFilteredPatients: filter makes a new array, which sort reorders
SortedAndFilteredPatients(ps, by, filter) ==
    SortBy(SelectSeq(ps, LAMBDA patient :
                filter = "ALL" \/ patient.status = filter), by)

\* the vitals generateVitals(patient.status === 'CRITICAL') can return for
\* each patient of ps, in order
RECURSIVE GeneratedFor(_)
GeneratedFor(ps) ==
    IF ps = <<>> THEN {<<>>}
    ELSE { <<v>> \o rest :
             v \in GenerateVitals(Head(ps).status = "CRITICAL"),
             rest \in GeneratedFor(Tail(ps)) }

\* the mount effect: setPatients(samplePatients) and the 5 s interval
MountMultiPatient ==
    /\ "MultiPatientDashboard" \notin mounted
    /\ mounted' = mounted \cup {"MultiPatientDashboard"}
    /\ intervals' = intervals \cup {SetInterval("MultiPatientDashboard")}
    /\ \E v1 \in GenerateVitals(FALSE), v2 \in GenerateVitals(TRUE),
          v3 \in GenerateVitals(FALSE), v4 \in GenerateVitals(FALSE) :
         patients' = SamplePatients(<<v1, v2, v3, v4>>)
    /\ UNCHANGED <<sortBy, filterStatus, ticks, lastTick>>
    /\ UNCHANGED <<dashVars, panelVars, chatVars, moreVars>>

\* variant: the update also derives the status from the new risk score
UpdateTick_SetsStatus ==
    /\ \E iv \in intervals : iv.owner = "MultiPatientDashboard"
    /\ \E v \in GeneratedFor(patients) :
         patients' = [i \in 1..Len(patients) |->
               [patients[i] EXCEPT
                  !.vitals = v[i],
                  !.riskScore = CalculateRiskScore(patients[i]),
                  !.status = IF CalculateRiskScore(patients[i]) > 70
                             THEN "CRITICAL"
                             ELSE IF CalculateRiskScore(patients[i]) > 40
                                  THEN "WARNING" ELSE "STABLE"]]
    /\ UNCHANGED <<sortBy, filterStatus, timerVars>>
    /\ UNCHANGED <<dashVars, panelVars, chatVars, moreVars>>

\* the callback of the 5 s interval: new vitals for every patient, and the
\* risk score of the vitals the patient had until now
UpdateTick ==
    /\ \E iv \in intervals : iv.owner = "MultiPatientDashboard"
    /\ \E v \in GeneratedFor(patients) :
         patients' = [i \in 1..Len(patients) |->
               [patients[i] EXCEPT
                  !.vitals = v[i],
                  !.riskScore = CalculateRiskScore(patients[i])]]
    /\ UNCHANGED <<sortBy, filterStatus, timerVars>>
    /\ UNCHANGED <<dashVars, panelVars, chatVars, moreVars>>

\* the "Sort by" select
SetSortBy ==
    /\ "MultiPatientDashboard" \in mounted
    /\ \E by \in {"risk", "status", "room", "time"} : sortBy' = by
    /\ UNCHANGED <<patients, filterStatus, timerVars>>
    /\ UNCHANGED <<dashVars, panelVars, chatVars, moreVars>>

\* the "Filter" select
SetFilterStatus ==
    /\ "MultiPatientDashboard" \in mounted
    /\ \E filter \in {"ALL", "CRITICAL", "WARNING"} : filterStatus' = filter
    /\ UNCHANGED <<patients, sortBy, timerVars>>
    /\ UNCHANGED <<dashVars, panelVars, chatVars, moreVars>>

(***************************************************************************)
(* install.sh: version_compare and check_requirements                      *)
(*                                                                         *)
(* A version is the array read from "major.minor.patch" by                 *)
(* IFS='.' read -ra: a sequence of numbers.                                *)
(***************************************************************************)
MinNodeVersion == <<18, 0, 0>>

MinPythonVersion == <<3, 11, 0>>

\* ${VER[i]} of bash array VER (0-based i): an unset element expands to the
\* empty string, which [[ -lt ]] and [[ -gt ]] evaluate as 0
ElementOf(VER, i) == IF i + 1 <= Len(VER) THEN VER[i + 1] ELSE 0

\* a comparison that rejects as soon as any component of version2 is smaller
VersionCompare_AnyComponent(version1, version2) ==
    IF \E i \in 0..(Len(version1) - 1) :
          ElementOf(version2, i) < ElementOf(version1, i)
    THEN 1 ELSE 0

\* the loop of version_compare from index i on; the value is the return status
RECURSIVE VersionCompareFrom(_, _, _)
VersionCompareFrom(VER1, VER2, i) ==
    IF i >= Len(VER1) THEN 0
    ELSE IF ElementOf(VER2, i) < ElementOf(VER1, i) THEN 1
    ELSE IF ElementOf(VER2, i) > ElementOf(VER1, i) THEN 0
    ELSE VersionCompareFrom(VER1, VER2, i + 1)

\* version_compare version1 version2 operator (the operator is never read)
VersionCompare(version1, version2) == VersionCompareFrom(version1, version2, 0)

\* the versions handed to version_compare in the function-level runs
SmallVersions ==
    {<<a, b, c>> : a \in 0..MaxComponent, b \in 0..MaxComponent, c \in 0..MaxComponent}

\* what `node --version | sed 's/v//'` can print on a machine
NodeVersions == {<<16, 20, 2>>, <<17, 9, 1>>, <<18, 0, 0>>, <<20, 0, 0>>}

\* what `python3 --version | awk '{print $2}'` can print on a machine
PythonVersions == {<<2, 7, 18>>, <<3, 10, 12>>, <<3, 11, 0>>, <<3, 12, 1>>}

\* a tool as found on the machine: command_exists and the version it prints
Tool(installed, version) == [installed |-> installed, version |-> version]

Machines(versions) ==
    {Tool(TRUE, v) : v \in versions} \cup {Tool(FALSE, <<0, 0, 0>>)}

\* the branch check_requirements takes for a tool with a minimum version:
\* print_success exactly when the command exists and version_compare succeeds
Accepted(tool, minVersion) ==
    tool.installed /\ VersionCompare(minVersion, tool.version) = 0

\* a direct call of version_compare (one call is explored per run)
CallVersionCompare ==
    /\ ~compared.called
    /\ \E version1 \in SmallVersions : \E version2 \in SmallVersions :
         compared' = [called |-> TRUE, version1 |-> version1, version2 |-> version2,
                      rc |-> VersionCompare(version1, version2)]
    /\ UNCHANGED <<requirements, baseVars, scored, sepsisAssessment, healthKitVitals, forecastVars, healthKit, hkLog, voice, home, dashChat, lastCall>>

\* check_requirements on a machine with the given node and python3, and with
\* npm, pip3, git (and docker when requested) all present or not; main calls
\* it once
CheckRequirements ==
    /\ ~requirements.checked
    /\ \E node \in Machines(NodeVersions) : \E python \in Machines(PythonVersions) :
       \E others \in BOOLEAN :
         requirements' =
            [checked |-> TRUE, node |-> node, python |-> python, others |-> others,
             nodeAccepted |-> Accepted(node, MinNodeVersion),
             pythonAccepted |-> Accepted(python, MinPythonVersion),
             requirements_met |-> /\ Accepted(node, MinNodeVersion)
                                  /\ Accepted(python, MinPythonVersion)
                                  /\ others]
    /\ UNCHANGED <<compared, baseVars, scored, sepsisAssessment, healthKitVitals, forecastVars, healthKit, hkLog, voice, home, dashChat, lastCall>>

(***************************************************************************)
(* MultiPatientDashboard.tsx: calculateRiskScore as a function of its      *)
(* argument                                                                *)
(***************************************************************************)
\* patients with vitals on both sides of each of the six thresholds and with
\* up to MaxWardAlerts alerts, each acknowledged or not
RiskInputs ==
    { [vitals |-> WardVitals(map, hr, spo2),
       alerts |-> [i \in 1..n |->
                     WardAlert("ALT", "HYPOTENSION", "HIGH", "", 0, i \in acked)]] :
        map \in {54, 55, 64, 65}, hr \in {100, 101, 120, 121},
        spo2 \in {89, 90, 94, 95},
        n \in 0..MaxWardAlerts, acked \in SUBSET (1..MaxWardAlerts) }

CallCalculateRiskScore ==
    /\ \E patient \in RiskInputs :
         scored' = [called |-> TRUE, patient |-> patient,
                    score |-> CalculateRiskScore(patient)]
    /\ UNCHANGED <<baseVars, installVars, sepsisAssessment, healthKitVitals, forecastVars, healthKit, hkLog, voice, home, dashChat, lastCall>>

(***************************************************************************)
(* pages/index.tsx: fetchSepsisAssessment                                  *)
(*                                                                         *)
(* Temp is in whole degrees Fahrenheit; the thresholds 100.4 and 96.8 are  *)
(* compared in tenths.  risk_score is in hundredths.                       *)
(***************************************************************************)
\* vitals lists of up to MaxVitalsLen samples whose HR, RR and Temp lie on
\* both sides of the thresholds fetchSepsisAssessment compares with
SepsisVitals(t) ==
    UNION { [1..n -> { [VitalsSample(t, 85, hr, 97, "Monitor")
                          EXCEPT !.RR = rr, !.Temp = temp] :
                       hr \in {90, 91}, rr \in {20, 21}, temp \in {96, 98, 101} }] :
            n \in 0..MaxVitalsLen }

\* the state of sepsisAssessment after fetchSepsisAssessment has run with the
\* vitals state holding vitalsData
FetchSepsisAssessment(current, vitalsData) ==
    IF Len(vitalsData) = 0 THEN current
    ELSE LET latest == vitalsData[Len(vitalsData)]
             elevated == latest.HR > 90 \/ latest.Temp * 10 > 1004
         IN  << [risk_score |-> IF elevated THEN 35 ELSE 12,
                 risk_level |-> IF elevated THEN "MODERATE" ELSE "LOW",
                 sirs_criteria |->
                    [Temperature |-> latest.Temp * 10 > 1004 \/ latest.Temp * 10 < 968,
                     HeartRate |-> latest.HR > 90,
                     RespiratoryRate |-> latest.RR > 20,
                     WBC |-> FALSE],
                 qsofa_score |-> 0,
                 confidence |-> 82] >>

\* the "Run Assessment" button, pressed while the vitals state holds vitalsData
CallFetchSepsisAssessment ==
    /\ \E vitalsData \in SepsisVitals(now) :
         /\ vitals' = vitalsData
         /\ sepsisAssessment' = FetchSepsisAssessment(sepsisAssessment, vitalsData)
    /\ UNCHANGED <<status, alerts, now, alertsCreated>>
    /\ UNCHANGED <<panelVars, chatVars, timerVars, wardVars, installVars, scored, healthKitVitals, forecastVars, healthKit, hkLog, voice, home, dashChat, lastCall>>

(***************************************************************************)
(* pages/index.tsx: the healthKitVitals effect                             *)
(***************************************************************************)
\* the interval callback of useHealthKit sets currentVitals to a new reading
\* (MAP in [75,95), HR in [70,100), SpO2 in [95,100)), and the effect that
\* depends on healthKitVitals appends it to the vitals history
HealthKitVitalsEffect ==
    LET n == IF healthKitVitals = <<>> THEN 1
             ELSE healthKitVitals[1].timestamp \div
                     IntervalPeriod("useHealthKit.startMonitoring") + 1
        reading == VitalsSample(n * IntervalPeriod("useHealthKit.startMonitoring"),
                                75, 70, 95, "Apple Watch")
    IN  /\ n <= MaxReadings
        /\ healthKitVitals' = <<reading>>
        /\ vitals' = SliceLast(vitals, KeepReadings) \o <<reading>>
        /\ UNCHANGED <<status, alerts, now, alertsCreated>>
        /\ UNCHANGED <<panelVars, chatVars, timerVars, wardVars, installVars, scored, sepsisAssessment, forecastVars, healthKit, hkLog, voice, home, dashChat, lastCall>>

(***************************************************************************)
(* components/RiskForecast.tsx                                             *)
(*                                                                         *)
(* A request is identified by its number; an interval by the number of the *)
(* request its effect run issued.  null is the empty sequence.             *)
(***************************************************************************)
\* the other components stay as they are
ForecastOnly == UNCHANGED <<baseVars, installVars, scored, sepsisAssessment, healthKitVitals, healthKit, hkLog, voice, home, dashChat, lastCall>>

\* fetchForecast up to its await fetch(...): setLoading(true), setError(null)
\* and the request, which carries the selectedMetric of the render
FetchForecast ==
    /\ forecastFetches < MaxForecasts
    /\ forecastFetches' = forecastFetches + 1
    /\ loading' = TRUE
    /\ error' = <<>>
    /\ forecastPending' = forecastPending \cup
          {[id |-> forecastFetches + 1, vitals_type |-> selectedMetric']}
    /\ UNCHANGED forecastData

\* variant: the effect never returns a cleanup
RunEffect_NoCleanup ==
    /\ FetchForecast
    /\ refreshIntervals' = IF autoRefresh'
                           THEN refreshIntervals \cup {forecastFetches + 1}
                           ELSE refreshIntervals
    /\ effectCleanup' = <<>>

\* a run of the effect on [selectedMetric, autoRefresh]: the cleanup of the
\* previous run (if it returned one), then fetchForecast() and, when
\* autoRefresh is on, setInterval(fetchForecast, 15000) and a new cleanup
RunEffect ==
    LET kept == IF effectCleanup = <<>> THEN refreshIntervals
                ELSE refreshIntervals \ {effectCleanup[1]}
    IN  /\ FetchForecast
        /\ refreshIntervals' = IF autoRefresh' THEN kept \cup {forecastFetches + 1}
                               ELSE kept
        /\ effectCleanup' = IF autoRefresh' THEN <<forecastFetches + 1>> ELSE <<>>

\* the header with the selector and the two buttons is rendered
ControlsShown == forecastMounted /\ ~(loading /\ forecastData = <<>>)

\* the mount of the component (one lifetime of the component is followed)
MountRiskForecast ==
    /\ ~forecastMounted /\ forecastFetches = 0
    /\ forecastMounted' = TRUE
    /\ UNCHANGED <<selectedMetric, autoRefresh>>
    /\ RunEffect
    /\ ForecastOnly

\* the metric selector (choosing the selected value again changes nothing)
SetSelectedMetric ==
    /\ ControlsShown
    /\ \E metric \in {"MAP", "HR", "SpO2"} \ {selectedMetric} : selectedMetric' = metric
    /\ UNCHANGED <<forecastMounted, autoRefresh>>
    /\ RunEffect
    /\ ForecastOnly

\* the auto-refresh toggle button
ToggleAutoRefresh ==
    /\ ControlsShown
    /\ autoRefresh' = ~autoRefresh
    /\ UNCHANGED <<forecastMounted, selectedMetric>>
    /\ RunEffect
    /\ ForecastOnly

\* the refresh button (disabled={loading})
RefreshClick ==
    /\ ControlsShown /\ ~loading
    /\ UNCHANGED <<forecastMounted, selectedMetric, autoRefresh, refreshIntervals, effectCleanup>>
    /\ FetchForecast
    /\ ForecastOnly

\* the callback of a refresh interval
RefreshTick ==
    /\ refreshIntervals # {}
    /\ UNCHANGED <<forecastMounted, selectedMetric, autoRefresh, refreshIntervals, effectCleanup>>
    /\ FetchForecast
    /\ ForecastOnly

\* a request fails: fetch rejects, the status is not OK, or the body is not
\* JSON; catch sets the error message and finally clears loading
ForecastFails ==
    /\ \E r \in forecastPending :
       \E message \in {"Failed to fetch", "HTTP error! status: 500",
                       "Unexpected token < in JSON"} :
         /\ forecastPending' = forecastPending \ {r}
         /\ error' = <<message>>
    /\ loading' = FALSE
    /\ UNCHANGED <<forecastMounted, forecastData, selectedMetric, autoRefresh,
                   forecastFetches, refreshIntervals, effectCleanup>>
    /\ ForecastOnly

\* a request succeeds: setForecastData(data), and finally clears loading
ForecastSucceeds ==
    /\ \E r \in forecastPending :
         /\ forecastPending' = forecastPending \ {r}
         /\ forecastData' = <<r>>
    /\ loading' = FALSE
    /\ UNCHANGED <<forecastMounted, error, selectedMetric, autoRefresh,
                   forecastFetches, refreshIntervals, effectCleanup>>
    /\ ForecastOnly

\* unmount: the cleanup of the last effect run; what the requests still in
\* flight set afterwards is set on an unmounted component and is dropped
UnmountRiskForecast ==
    /\ forecastMounted
    /\ forecastMounted' = FALSE
    /\ refreshIntervals' = IF effectCleanup = <<>> THEN refreshIntervals
                           ELSE refreshIntervals \ {effectCleanup[1]}
    /\ effectCleanup' = <<>>
    /\ forecastPending' = {}
    /\ UNCHANGED <<forecastData, loading, error, selectedMetric, autoRefresh,
                   forecastFetches>>
    /\ ForecastOnly

(***************************************************************************)
(* utils/healthkit.tsx: HealthKitIntegration                               *)
(*                                                                         *)
(* A vitals record keeps its heart rate and oxygen saturation and the      *)
(* method that built it; null is the empty sequence.                       *)
(***************************************************************************)
\* generateMockVitals(): heartRate in 70..100, oxygenSaturation in 96..100
\* queryHealthKitData(): heartRate >= 50, oxygenSaturation in 97..100
HealthKitReadings(madeBy) ==
    { [heartRate |-> hr, oxygenSaturation |-> o, madeBy |-> madeBy] :
        hr \in (IF madeBy = "generateMockVitals" THEN {70, 100} ELSE {50, 95}),
        o \in (IF madeBy = "generateMockVitals" THEN {96, 100} ELSE {97, 100}) }

\* what a method has resolved to
Resolved(method, granted, value) ==
    [method |-> method, granted |-> granted, vitals |-> value]

\* the instance is on a device with or without HealthKit, as checkAvailability
\* finds at construction
CheckAvailability ==
    /\ hkLog = <<>> /\ healthKit.permissions = {} /\ healthKit.requesting = 0
    /\ \E available \in BOOLEAN : healthKit' = [healthKit EXCEPT !.isAvailable = available]
    /\ UNCHANGED <<hkLog, baseVars, installVars, scored, sepsisAssessment, healthKitVitals, forecastVars, voice, home, dashChat, lastCall>>

\* requestPermissions(): false at once when HealthKit is not available,
\* otherwise it awaits the permission dialog
RequestPermissions ==
    /\ Len(hkLog) + healthKit.requesting < MaxHealthKitCalls
    /\ IF ~healthKit.isAvailable
       THEN /\ hkLog' = Append(hkLog, Resolved("requestPermissions", FALSE, <<>>))
            /\ UNCHANGED healthKit
       ELSE /\ healthKit' = [healthKit EXCEPT !.requesting = @ + 1]
            /\ UNCHANGED hkLog
    /\ UNCHANGED <<baseVars, installVars, scored, sepsisAssessment, healthKitVitals, forecastVars, voice, home, dashChat, lastCall>>

\* mockHealthKitPermission resolves true after a second; requestPermissions
\* then stores the read permissions and resolves to the same value
PermissionGranted ==
    /\ healthKit.requesting > 0
    /\ healthKit' = [healthKit EXCEPT
                       !.requesting = @ - 1,
                       !.permissions = {"HeartRate", "OxygenSaturation", "RespiratoryRate",
                                        "BodyTemperature", "BloodPressureSystolic",
                                        "BloodPressureDiastolic"}]
    /\ hkLog' = Append(hkLog, Resolved("requestPermissions", TRUE, <<>>))
    /\ UNCHANGED <<baseVars, installVars, scored, sepsisAssessment, healthKitVitals, forecastVars, voice, home, dashChat, lastCall>>

\* variant: HealthKit is queried whenever it is available
GetRealtimeVitals_IgnoresPermissions ==
    /\ Len(hkLog) + healthKit.requesting < MaxHealthKitCalls
    /\ \E v \in HealthKitReadings(IF ~healthKit.isAvailable
                                  THEN "generateMockVitals" ELSE "queryHealthKitData") :
         hkLog' = Append(hkLog, Resolved("getRealtimeVitals", FALSE, <<v>>))
    /\ UNCHANGED <<healthKit, baseVars, installVars, scored, sepsisAssessment, healthKitVitals, forecastVars, voice, home, dashChat, lastCall>>

\* getRealtimeVitals(): mock vitals when HealthKit is unavailable or no
\* permission is held, otherwise the vitals queryHealthKitData resolves to
\* (queryHealthKitData has no failing path, so the catch is never entered)
GetRealtimeVitals ==
    /\ Len(hkLog) + healthKit.requesting < MaxHealthKitCalls
    /\ \E v \in HealthKitReadings(IF ~healthKit.isAvailable \/ healthKit.permissions = {}
                                  THEN "generateMockVitals" ELSE "queryHealthKitData") :
         hkLog' = Append(hkLog, Resolved("getRealtimeVitals", FALSE, <<v>>))
    /\ UNCHANGED <<healthKit, baseVars, installVars, scored, sepsisAssessment, healthKitVitals, forecastVars, voice, home, dashChat, lastCall>>

(***************************************************************************)
(* utils/voiceCommands.ts: VoiceCommandSystem                              *)
(*                                                                         *)
(* A pattern or transcript is the sequence of its characters.  An action   *)
(* is the sequence of the calls it makes: `calls` always, then             *)
(* `withVitals` when context.getLatestVitals returned vitals.              *)
(***************************************************************************)
\* this.commands as set by setupCommands
Commands ==
    << [patterns |-> << <<"s", "h", "o", "w", " ", "o", "v", "e", "r", "v", "i", "e", "w">>,
                     <<"g", "o", " ", "t", "o", " ", "o", "v", "e", "r", "v", "i", "e", "w">>,
                     <<"m", "a", "i", "n", " ", "d", "a", "s", "h", "b", "o", "a", "r", "d">> >>,
        calls |-> << "setActiveView(overview)" >>,
        withVitals |-> <<  >>,
        description |-> "Navigate to overview dashboard",
        category |-> "navigation"],
       [patterns |-> << <<"s", "h", "o", "w", " ", "c", "h", "a", "r", "t", "s">>,
                     <<"d", "i", "s", "p", "l", "a", "y", " ", "c", "h", "a", "r", "t", "s">>,
                     <<"v", "i", "t", "a", "l", "s", " ", "c", "h", "a", "r", "t">> >>,
        calls |-> << "setActiveView(charts)" >>,
        withVitals |-> <<  >>,
        description |-> "Show real-time vitals charts",
        category |-> "navigation"],
       [patterns |-> << <<"s", "h", "o", "w", " ", "f", "o", "r", "e", "c", "a", "s", "t">>,
                     <<"r", "i", "s", "k", " ", "f", "o", "r", "e", "c", "a", "s", "t">>,
                     <<"p", "r", "e", "d", "i", "c", "t", "i", "o", "n">> >>,
        calls |-> << "setActiveView(forecast)", "fetchForecast" >>,
        withVitals |-> <<  >>,
        description |-> "Show risk forecasting",
        category |-> "navigation"],
       [patterns |-> << <<"s", "h", "o", "w", " ", "a", "l", "e", "r", "t", "s">>,
                     <<"d", "i", "s", "p", "l", "a", "y", " ", "a", "l", "e", "r", "t", "s">>,
                     <<"a", "l", "e", "r", "t", " ", "p", "a", "n", "e", "l">> >>,
        calls |-> << "setActiveView(alerts)" >>,
        withVitals |-> <<  >>,
        description |-> "Show clinical alerts",
        category |-> "navigation"],
       [patterns |-> << <<"a", "i", " ", "c", "h", "a", "t">>,
                     <<"o", "p", "e", "n", " ", "c", "h", "a", "t">>,
                     <<"t", "a", "l", "k", " ", "t", "o", " ", "a", "i">> >>,
        calls |-> << "setActiveView(chat)" >>,
        withVitals |-> <<  >>,
        description |-> "Open AI chat interface",
        category |-> "navigation"],
       [patterns |-> << <<"w", "h", "a", "t", " ", "i", "s", " ", "t", "h", "e", " ", "m", "a", "p">>,
                     <<"c", "u", "r", "r", "e", "n", "t", " ", "m", "a", "p">>,
                     <<"b", "l", "o", "o", "d", " ", "p", "r", "e", "s", "s", "u", "r", "e">> >>,
        calls |-> << "getLatestVitals" >>,
        withVitals |-> << "speak(Current mean arterial pressure is ...)" >>,
        description |-> "Get current MAP value",
        category |-> "query"],
       [patterns |-> << <<"w", "h", "a", "t", " ", "i", "s", " ", "t", "h", "e", " ", "h", "e", "a", "r", "t", " ", "r", "a", "t", "e">>,
                     <<"c", "u", "r", "r", "e", "n", "t", " ", "h", "e", "a", "r", "t", " ", "r", "a", "t", "e">>,
                     <<"p", "u", "l", "s", "e">> >>,
        calls |-> << "getLatestVitals" >>,
        withVitals |-> << "speak(Current heart rate is ...)" >>,
        description |-> "Get current heart rate",
        category |-> "query"],
       [patterns |-> << <<"o", "x", "y", "g", "e", "n", " ", "s", "a", "t", "u", "r", "a", "t", "i", "o", "n">>,
                     <<"s", "p", "o", "2">>,
                     <<"o", "x", "y", "g", "e", "n", " ", "l", "e", "v", "e", "l">> >>,
        calls |-> << "getLatestVitals" >>,
        withVitals |-> << "speak(Oxygen saturation is ...)" >>,
        description |-> "Get oxygen saturation",
        category |-> "query"],
       [patterns |-> << <<"p", "a", "t", "i", "e", "n", "t", " ", "s", "t", "a", "t", "u", "s">>,
                     <<"o", "v", "e", "r", "a", "l", "l", " ", "s", "t", "a", "t", "u", "s">>,
                     <<"h", "o", "w", " ", "i", "s", " ", "t", "h", "e", " ", "p", "a", "t", "i", "e", "n", "t">> >>,
        calls |-> << "getLatestVitals" >>,
        withVitals |-> << "speak(Patient status is ...)" >>,
        description |-> "Get overall patient status",
        category |-> "query"],
       [patterns |-> << <<"a", "c", "k", "n", "o", "w", "l", "e", "d", "g", "e", " ", "a", "l", "e", "r", "t", "s">>,
                     <<"c", "l", "e", "a", "r", " ", "a", "l", "e", "r", "t", "s">>,
                     <<"d", "i", "s", "m", "i", "s", "s", " ", "a", "l", "e", "r", "t", "s">> >>,
        calls |-> << "acknowledgeAllAlerts", "speak(All alerts have been acknowledged)" >>,
        withVitals |-> <<  >>,
        description |-> "Acknowledge all active alerts",
        category |-> "action"],
       [patterns |-> << <<"u", "p", "d", "a", "t", "e", " ", "f", "o", "r", "e", "c", "a", "s", "t">>,
                     <<"r", "e", "f", "r", "e", "s", "h", " ", "f", "o", "r", "e", "c", "a", "s", "t">>,
                     <<"n", "e", "w", " ", "p", "r", "e", "d", "i", "c", "t", "i", "o", "n">> >>,
        calls |-> << "speak(Updating risk forecast)", "fetchForecast", "speak(Forecast has been updated)" >>,
        withVitals |-> <<  >>,
        description |-> "Update risk forecast",
        category |-> "action"],
       [patterns |-> << <<"r", "e", "a", "d", " ", "v", "i", "t", "a", "l", "s">>,
                     <<"v", "i", "t", "a", "l", "s", " ", "r", "e", "p", "o", "r", "t">>,
                     <<"a", "l", "l", " ", "v", "i", "t", "a", "l", "s">> >>,
        calls |-> << "getLatestVitals" >>,
        withVitals |-> << "speak(Current vitals: ...)" >>,
        description |-> "Read all current vitals",
        category |-> "query"],
       [patterns |-> << <<"e", "m", "e", "r", "g", "e", "n", "c", "y">>,
                     <<"h", "e", "l", "p">>,
                     <<"c", "o", "d", "e", " ", "b", "l", "u", "e">>,
                     <<"u", "r", "g", "e", "n", "t">> >>,
        calls |-> << "speak(Emergency protocol activated. Notifying clinical team.)", "triggerEmergency" >>,
        withVitals |-> <<  >>,
        description |-> "Trigger emergency alert",
        category |-> "emergency"],
       [patterns |-> << <<"c", "a", "l", "l", " ", "d", "o", "c", "t", "o", "r">>,
                     <<"g", "e", "t", " ", "p", "h", "y", "s", "i", "c", "i", "a", "n">>,
                     <<"m", "e", "d", "i", "c", "a", "l", " ", "h", "e", "l", "p">> >>,
        calls |-> << "speak(Paging attending physician)", "pagePhysician" >>,
        withVitals |-> <<  >>,
        description |-> "Page attending physician",
        category |-> "emergency"] >>

\* getAvailableCommands()
GetAvailableCommands ==
    [i \in 1..Len(Commands) |->
        [patterns |-> Commands[i].patterns,
         description |-> Commands[i].description,
         category |-> Commands[i].category]]

\* String.prototype.toLowerCase on the letters that occur
ToLowerCase(text) ==
    LET upper == <<"H", "M", "E", "L", "P">>
        lower == <<"h", "m", "e", "l", "p">>
    IN  [i \in 1..Len(text) |->
            IF \E j \in 1..Len(upper) : upper[j] = text[i]
            THEN lower[CHOOSE j \in 1..Len(upper) : upper[j] = text[i]]
            ELSE text[i]]

\* String.prototype.includes
Includes(text, pattern) ==
    \E i \in 1..(Len(text) - Len(pattern) + 1) :
        SubSeq(text, i, i + Len(pattern) - 1) = pattern

\* the final transcripts heard: every pattern of every command, and some
\* other utterances
Transcripts ==
    UNION { { Commands[i].patterns[p] : p \in 1..Len(Commands[i].patterns) } :
            i \in 1..Len(Commands) } \cup
    { <<"h", "e", "l", "p">>,
      <<"H", "e", "l", "p">>,
      <<" ", "h", "e", "l", "p", " ">>,
      <<"h", "e", "l", "l", "o">>,
      <<"M", "e", "d", "i", "c", "a", "l", " ", "H", "e", "l", "p">>,
      <<"p", "l", "e", "a", "s", "e", " ", "s", "h", "o", "w", " ", "c", "h", "a", "r", "t", "s", " ", "n", "o", "w">>,
      <<"w", "h", "a", "t", " ", "a", "b", "o", "u", "t", " ", "t", "h", "e", " ", "f", "l", "u", "i", "d", " ", "b", "a", "l", "a", "n", "c", "e">> }

\* processCommand(transcript) with a context that has sendChatMessage or not
\* and whose getLatestVitals returns vitals or not
ProcessCommand ==
    \E transcript \in Transcripts : \E hasChat \in BOOLEAN : \E hasVitals \in BOOLEAN :
    \E normalizedTranscript \in {Trim(ToLowerCase(transcript))} :
    \E matching \in
         {{i \in 1..Len(Commands) :
             \E p \in 1..Len(Commands[i].patterns) :
             \E pattern \in {ToLowerCase(Commands[i].patterns[p])} :
                Includes(normalizedTranscript, pattern)}} :
    \* Array.prototype.find: the first command that matches, 0 for undefined
    \E matchedCommand \in
         {IF matching = {} THEN 0
          ELSE CHOOSE i \in matching : \A j \in matching : i <= j} :
      /\ voice' =
           [transcript |-> transcript,
            context |-> [sendChatMessage |-> hasChat, vitals |-> hasVitals],
            executed |-> matchedCommand,
            calls |->
              IF matchedCommand # 0
              THEN Commands[matchedCommand].calls \o
                   (IF hasVitals THEN Commands[matchedCommand].withVitals ELSE <<>>)
              ELSE IF hasChat /\ Len(normalizedTranscript) > 10
              THEN <<"speak(Sending your question to the AI assistant)",
                     "setActiveView(chat)", "setChatInput(transcript)",
                     "setTimeout(sendChatMessage, 500)">>
              ELSE <<"speak(Command not recognized. Try saying \"help\" for available commands)">>]
      /\ UNCHANGED <<baseVars, installVars, scored, sepsisAssessment, healthKitVitals, forecastVars, healthKit, hkLog, home, dashChat, lastCall>>

(***************************************************************************)
(* frontend_setup_script.sh: the generated pages/index.tsx (Home)          *)
(*                                                                         *)
(* A testConnection call in flight is at its await fetch('/api/health') or *)
(* (stage "vitals") at its await fetch('/api/vitals') / await json().      *)
(***************************************************************************)
\* testConnection up to its first await: called by the mount effect and then
\* by the interval every 5 seconds
TestConnection ==
    /\ home.started < MaxHomePolls
    /\ home' = [home EXCEPT
                  !.started = @ + 1,
                  !.polls = @ \cup {[id |-> home.started + 1, stage |-> "health"]}]
    /\ UNCHANGED <<baseVars, installVars, scored, sepsisAssessment, healthKitVitals, forecastVars, healthKit, hkLog, voice, dashChat, lastCall>>

\* fetch('/api/health') settles: OK, not OK, or rejected
HealthResponds ==
    /\ \E poll \in home.polls : \E health \in {"ok", "notOk", "rejected"} :
         /\ poll.stage = "health"
         /\ home' = IF health = "ok"
                    THEN [home EXCEPT
                            !.status = "connected",
                            !.polls = (@ \ {poll}) \cup {[poll EXCEPT !.stage = "vitals"]}]
                    ELSE [home EXCEPT
                            !.status = "error",
                            !.polls = @ \ {poll},
                            !.completed = @ + 1,
                            !.last = [id |-> poll.id, health |-> health, vitals |-> "none"]]
    /\ UNCHANGED <<baseVars, installVars, scored, sepsisAssessment, healthKitVitals, forecastVars, healthKit, hkLog, voice, dashChat, lastCall>>

\* variant: a failing /api/vitals request leaves the status alone
VitalsResponds_KeepsStatus ==
    /\ \E poll \in home.polls :
       \E outcome \in {"ok", "notOk", "rejected", "badJson"} :
       \E vitalsData \in {<<>>, <<VitalsSample(0, 85, 80, 97, "Backend")>>,
                          <<VitalsSample(0, 60, 110, 93, "Backend")>>} :
         /\ poll.stage = "vitals"
         /\ outcome # "ok" => vitalsData = <<>>
         /\ home' = [home EXCEPT
                       !.vitals = IF outcome = "ok" THEN vitalsData ELSE @,
                       !.polls = @ \ {poll},
                       !.completed = @ + 1,
                       !.last = [id |-> poll.id, health |-> "ok", vitals |-> outcome]]
    /\ UNCHANGED <<baseVars, installVars, scored, sepsisAssessment, healthKitVitals, forecastVars, healthKit, hkLog, voice, dashChat, lastCall>>

\* fetch('/api/vitals') settles: OK with a JSON body (setVitals), not OK
\* (nothing is set), rejected or OK with a body that is not JSON (catch:
\* setStatus('error'))
VitalsResponds ==
    /\ \E poll \in home.polls :
       \E outcome \in {"ok", "notOk", "rejected", "badJson"} :
       \E vitalsData \in {<<>>, <<VitalsSample(0, 85, 80, 97, "Backend")>>,
                          <<VitalsSample(0, 60, 110, 93, "Backend")>>} :
         /\ poll.stage = "vitals"
         /\ outcome # "ok" => vitalsData = <<>>
         /\ home' = [home EXCEPT
                       !.status = IF outcome \in {"rejected", "badJson"} THEN "error" ELSE @,
                       !.vitals = IF outcome = "ok" THEN vitalsData ELSE @,
                       !.polls = @ \ {poll},
                       !.completed = @ + 1,
                       !.last = [id |-> poll.id, health |-> "ok", vitals |-> outcome]]
    /\ UNCHANGED <<baseVars, installVars, scored, sepsisAssessment, healthKitVitals, forecastVars, healthKit, hkLog, voice, dashChat, lastCall>>

(***************************************************************************)
(* part_002: the chat of the main dashboard                                *)
(*                                                                         *)
(* Texts are sequences of tokens.  A callback passed to setTimeout keeps   *)
(* the chatInput, chatLoading and vitals of the render that created it:    *)
(* the timers carry these values (text, loading, vitals).  A 100 ms timer  *)
(* of a Quick Question also carries the question clicked.                  *)
(***************************************************************************)
\* the texts typed into the chat input
ChatInputTexts == { <<>>, <<" ">>, <<"drug", " ", "dose", "?">> }

\* the Quick Questions buttons
DashQuickQuestions ==
    { <<"What", " ", "are", " ", "the", " ", "current", " ", "vitals", "?">>,
      <<"Check", " ", "sepsis", " ", "risk">>,
      <<"Recommend", " ", "drug", " ", "dosing">>,
      <<"Any", " ", "alerts", "?">> }

\* the simulated AI response to a question, from the vitals of the closure
ChatResponse(question, closureVitals) ==
    LET lower == ToLowerCase(question)
        latest == closureVitals[Len(closureVitals)]
    IN  IF Includes(lower, <<"vitals">>) /\ closureVitals # <<>>
        THEN <<"Current vitals: MAP ", ToString(latest.MAP), " mmHg, HR ",
               ToString(latest.HR), " bpm, SpO2 ", ToString(latest.SpO2),
               "%. All parameters within acceptable ranges.">>
        ELSE IF Includes(lower, <<"sepsis">>)
        THEN <<"Based on current vitals, sepsis risk is low. No SIRS criteria met.">>
        ELSE IF Includes(lower, <<"drug">>) \/ Includes(lower, <<"medication">>)
        THEN <<"For current patient profile, consider standard perioperative protocols.">>
        ELSE <<"I can help with patient monitoring, sepsis assessment, drug recommendations, and clinical decision support.">>

\* sendChatMessage as created by a render whose state was closureInput,
\* closureLoading, closureVitals, run when the chat state is chat: up to the
\* setTimeout of the reply (which does not throw, so the catch is never
\* entered)
SendChatMessage(chat, closureInput, closureLoading, closureVitals) ==
    IF Trim(closureInput) = <<>> \/ closureLoading
    THEN chat
    ELSE [chat EXCEPT
            !.chatMessages = Append(@, [role |-> "user", content |-> Trim(closureInput)]),
            !.chatInput = <<>>,
            !.chatLoading = TRUE,
            !.scheduled = @ + 1,
            !.timers = @ \cup {[n |-> chat.scheduled + 1, kind |-> "reply",
                                text |-> Trim(closureInput), loading |-> closureLoading,
                                vitals |-> closureVitals, clicked |-> <<>>]}]

\* onChange of the chat input
TypeChatInput ==
    /\ \E text \in ChatInputTexts :
         /\ text # dashChat.chatInput
         /\ dashChat' = [dashChat EXCEPT !.chatInput = text]
    /\ UNCHANGED <<baseVars, installVars, scored, sepsisAssessment, healthKitVitals, forecastVars, healthKit, hkLog, voice, home, lastCall>>

\* Enter in the chat input, or the Send button (disabled when chatLoading or
\* the input is blank): sendChatMessage of the current render
PressSend ==
    /\ dashChat.scheduled < MaxChatTimers
    /\ dashChat' = SendChatMessage(dashChat, dashChat.chatInput, dashChat.chatLoading, vitals)
    /\ UNCHANGED <<baseVars, installVars, scored, sepsisAssessment, healthKitVitals, forecastVars, healthKit, hkLog, voice, home, lastCall>>

\* onClick of a Quick Question: setChatInput(question) and
\* setTimeout(() => sendChatMessage(), 100), with the sendChatMessage of the
\* render in which the button was clicked
ClickQuickQuestion ==
    /\ dashChat.scheduled < MaxChatTimers
    /\ \E question \in DashQuickQuestions :
         dashChat' = [dashChat EXCEPT
            !.chatInput = question,
            !.scheduled = @ + 1,
            !.timers = @ \cup {[n |-> dashChat.scheduled + 1, kind |-> "send",
                                text |-> dashChat.chatInput, loading |-> dashChat.chatLoading,
                                vitals |-> vitals, clicked |-> question]}]
    /\ UNCHANGED <<baseVars, installVars, scored, sepsisAssessment, healthKitVitals, forecastVars, healthKit, hkLog, voice, home, lastCall>>

\* the 100 ms timer of a Quick Question runs: timers of equal delay run in
\* the order they were set
SendTimerFires ==
    /\ \E t \in dashChat.timers :
         /\ t.kind = "send"
         /\ \A u \in dashChat.timers : u.kind = "send" => u.n >= t.n
         /\ dashChat.scheduled < MaxChatTimers
         /\ dashChat' = SendChatMessage([dashChat EXCEPT !.timers = @ \ {t}],
                                        t.text, t.loading, t.vitals)
    /\ UNCHANGED <<baseVars, installVars, scored, sepsisAssessment, healthKitVitals, forecastVars, healthKit, hkLog, voice, home, lastCall>>

\* the 1000 ms timer of a sent message runs: the assistant reply.  A 100 ms
\* timer set before this timer was set has already run.
ReplyTimerFires ==
    /\ \E t \in dashChat.timers :
         /\ t.kind = "reply"
         /\ \A u \in dashChat.timers : u.n >= t.n
         /\ dashChat' = [dashChat EXCEPT
                !.timers = @ \ {t},
                !.chatMessages = Append(@, [role |-> "assistant",
                                            content |-> ChatResponse(t.text, t.vitals),
                                            confidence |-> 85]),
                !.chatLoading = FALSE]
    /\ UNCHANGED <<baseVars, installVars, scored, sepsisAssessment, healthKitVitals, forecastVars, healthKit, hkLog, voice, home, lastCall>>

(***************************************************************************)
(* ChatPanel.tsx: sendMessage called while a request is loading             *)
(***************************************************************************)
\* sendMessage(content) with a non-blank content while a request is loading:
\* the call the disabled input and buttons keep the page from making.  One
\* such call is followed, from every loading state of the panel.
CallSendMessage ==
    /\ isLoading
    /\ ~lastCall.made
    /\ \E content \in QuickQuestions :
         /\ SendMessage(content)
         /\ lastCall' = [made |-> TRUE, content |-> content]
    /\ UNCHANGED <<dashVars, panelVars, timerVars, wardVars, installVars, scored, sepsisAssessment, healthKitVitals, forecastVars, healthKit, hkLog, voice, home, dashChat>>

(***************************************************************************)
(* Specifications                                                          *)
(***************************************************************************)
InitDash ==
    /\ vitals = <<>>
    /\ status = "checking..."
    /\ alerts = <<>>
    /\ now = 0
    /\ alertsCreated = 0

InitPanel ==
    /\ events = <<>>
    /\ alertRules = DefaultAlertRules
    /\ acknowledgedAlerts = {}
    /\ panelThrew = FALSE

InitChat ==
    /\ messages = <<Greeting>>
    /\ inputMessage = <<>>
    /\ isLoading = FALSE
    /\ pending = {}
    /\ fetchCount = 0
    /\ chatErrors = 0

InitTimers ==
    /\ mounted = {}
    /\ intervals = {}
    /\ ticks = 0
    /\ lastTick = "none"

InitWard ==
    /\ patients = <<>>
    /\ sortBy = "risk"
    /\ filterStatus = "ALL"

InitInstall ==
    /\ compared = [called |-> FALSE, version1 |-> <<0, 0, 0>>,
                   version2 |-> <<0, 0, 0>>, rc |-> 0]
    /\ requirements =
         [checked |-> FALSE, node |-> Tool(FALSE, <<0, 0, 0>>),
          python |-> Tool(FALSE, <<0, 0, 0>>), others |-> FALSE,
          nodeAccepted |-> FALSE, pythonAccepted |-> FALSE,
          requirements_met |-> FALSE]

InitBase == InitDash /\ InitPanel /\ InitChat /\ InitTimers /\ InitWard

\* the components whose state is a single value
InitMore ==
    /\ scored = [called |-> FALSE,
                 patient |-> [vitals |-> WardVitals(75, 80, 98), alerts |-> <<>>],
                 score |-> 0]
    /\ sepsisAssessment = <<>>
    /\ healthKitVitals = <<>>
    /\ healthKit = [isAvailable |-> FALSE, permissions |-> {}, requesting |-> 0]
    /\ hkLog = <<>>
    /\ voice = [transcript |-> <<>>,
                context |-> [sendChatMessage |-> FALSE, vitals |-> FALSE],
                executed |-> 0, calls |-> <<>>]
    /\ home = [status |-> "connecting", vitals |-> <<>>, polls |-> {},
               started |-> 0, completed |-> 0,
               last |-> [id |-> 0, health |-> "none", vitals |-> "none"]]
    /\ dashChat = [chatInput |-> <<>>,
                   chatMessages |-> << [role |-> "assistant",
                                        content |-> <<"Hello! I'm OR-BIT AI with advanced clinical intelligence.">>] >>,
                   chatLoading |-> FALSE, timers |-> {}, scheduled |-> 0]
    /\ lastCall = [made |-> FALSE, content |-> <<>>]

InitForecast ==
    /\ forecastMounted = FALSE
    /\ forecastData = <<>>
    /\ loading = FALSE
    /\ error = <<>>
    /\ selectedMetric = "MAP"
    /\ autoRefresh = TRUE
    /\ forecastPending = {}
    /\ forecastFetches = 0
    /\ refreshIntervals = {}
    /\ effectCleanup = <<>>

Init == InitBase /\ InitInstall /\ InitMore /\ InitForecast

\* the dashboard under polling and acknowledgement
Next ==
    \/ FetchData(MaxPolls)
    \/ AcknowledgeAll
    \/ \E i \in 1..(KeepAlerts + 3) : AcknowledgeAlert(i)

Spec == Init /\ [][Next]_vars

\* the dashboard over a long run of polls
NextRetention ==
    \/ FetchData(LongRun)
    \/ AcknowledgeAll

SpecRetention == Init /\ [][NextRetention]_vars

\* checkForAlerts as a function of its argument
NextCheckForAlerts == CallCheckForAlerts

SpecCheckForAlerts == Init /\ [][NextCheckForAlerts]_vars

\* AlertsPanel under new events and rule changes
NextAlertsPanel ==
    \/ ReceiveEvents
    \/ \E ruleId \in RuleIds : ToggleAlertRule(ruleId)
    \/ \E field \in RuleFields : \E value \in RuleValues(field) :
         UpdateAlertRule("1", field, value)

SpecAlertsPanel == Init /\ [][NextAlertsPanel]_vars

\* ChatPanel under typing, sending, clearing and the responses of /api/ask
SettleRequest == FetchRejects \/ RespondNotOk \/ RespondBadJson \/ RespondOk

NextChat ==
    \/ TypeInput
    \/ HandleSubmit
    \/ HandleQuickQuestion
    \/ ClearChat
    \/ SettleRequest

SpecChat == Init /\ [][NextChat]_vars

\* the timers of all components under mounting, unmounting and ticking
NextTimers ==
    \/ \E c \in Components : MountEffect(c)
    \/ \E c \in Components : UnmountCleanup(c)
    \/ \E f \in Streams : StartStream(f)
    \/ \E f \in Streams : StopStream(f)
    \/ IntervalTick

SpecTimers == Init /\ [][NextTimers]_vars

\* MultiPatientDashboard under its update interval and its two selects
NextMultiPatient ==
    \/ MountMultiPatient
    \/ UpdateTick
    \/ SetSortBy
    \/ SetFilterStatus

SpecMultiPatient == Init /\ [][NextMultiPatient]_vars

\* the same, with every fetch promise settling in the end
SpecChatFair == SpecChat /\ WF_vars(SettleRequest)

\* the installer's version check, called directly and from check_requirements
NextInstall ==
    \/ CallVersionCompare
    \/ CheckRequirements

SpecInstall == Init /\ [][NextInstall]_vars

\* calculateRiskScore as a function of its argument
SpecRiskScore == Init /\ [][CallCalculateRiskScore]_vars

\* fetchSepsisAssessment on any vitals
SpecSepsis == Init /\ [][CallFetchSepsisAssessment]_vars

\* the vitals history under Apple Watch readings
SpecHealthKitEffect == Init /\ [][HealthKitVitalsEffect]_vars

\* RiskForecast under its controls, its refresh interval and the responses
NextForecast ==
    \/ MountRiskForecast
    \/ SetSelectedMetric
    \/ ToggleAutoRefresh
    \/ RefreshClick
    \/ RefreshTick
    \/ ForecastFails
    \/ ForecastSucceeds
    \/ UnmountRiskForecast

SpecForecast == Init /\ [][NextForecast]_vars

\* a HealthKitIntegration instance under calls of its async methods
NextHealthKit ==
    \/ CheckAvailability
    \/ RequestPermissions
    \/ PermissionGranted
    \/ GetRealtimeVitals

SpecHealthKit == Init /\ [][NextHealthKit]_vars

\* the voice command system under final transcripts
SpecVoice == Init /\ [][ProcessCommand]_vars

\* the generated landing page under its polls and their responses
NextHome ==
    \/ TestConnection
    \/ HealthResponds
    \/ VitalsResponds

SpecHome == Init /\ [][NextHome]_vars

\* the chat of the main dashboard under typing, sending, Quick Questions
\* and the timers
NextDashChat ==
    \/ TypeChatInput
    \/ PressSend
    \/ ClickQuickQuestion
    \/ SendTimerFires
    \/ ReplyTimerFires

SpecDashChat == Init /\ [][NextDashChat]_vars

\* ChatPanel under its handlers, the responses and direct sendMessage calls
NextSendMessage ==
    \/ TypeInput
    \/ HandleSubmit
    \/ HandleQuickQuestion
    \/ ClearChat
    \/ SettleRequest
    \/ CallSendMessage

SpecSendMessage == Init /\ [][NextSendMessage]_vars

(***************************************************************************)
(* Properties of the main dashboard                                        *)
(***************************************************************************)
\* a with its acknowledged flag left out
WithoutAck(a) == [f \in DOMAIN a \ {"acknowledged"} |-> a[f]]

\* C1: every "Acknowledge All" click leaves every alert of the list
\* acknowledged, whatever its severity or age, so that the badge count is 0,
\* and changes neither the number, the order nor any other field of the alerts.
C1_AcknowledgeAllAcksEvery ==
    [][AcknowledgeAll =>
         /\ Len(alerts') = Len(alerts)
         /\ \A i \in 1..Len(alerts) :
              /\ alerts'[i].acknowledged
              /\ WithoutAck(alerts'[i]) = WithoutAck(alerts[i])
         /\ UnacknowledgedCount(alerts') = 0]_vars

\* C1 witness: three or more alerts of both severities, created by different
\* polls, all of them acknowledged.
C1_Witness ==
    /\ Len(alerts) >= 3
    /\ \E i, j \in 1..Len(alerts) :
         /\ alerts[i].severity = "HIGH" /\ alerts[j].severity = "MEDIUM"
         /\ alerts[i].timestamp # alerts[j].timestamp
    /\ \A i \in 1..Len(alerts) : alerts[i].acknowledged

\* the alert types the claim says the sample l breaches
C2_Breached(l) ==
    (IF l.MAP < 65 THEN {"HYPOTENSION"} ELSE {})
    \cup (IF l.HR > 100 THEN {"TACHYCARDIA"} ELSE {})
    \cup (IF l.SpO2 < 95 THEN {"HYPOXEMIA"} ELSE {})

C2_Severity(type) == IF type = "TACHYCARDIA" THEN "MEDIUM" ELSE "HIGH"

\* C2: a call of checkForAlerts looks at the latest sample only and puts, at
\* the end of the alerts list, exactly one unacknowledged alert for each of
\* MAP < 65 (HYPOTENSION, HIGH), HR > 100 (TACHYCARDIA, MEDIUM) and
\* SpO2 < 95 (HYPOXEMIA, HIGH); what precedes them are alerts the list already
\* held, and with no breach (65, 100, 95 are none) or no sample the list is
\* unchanged.
C2_AlertPerBreach ==
    [][now' # now =>
         LET vd == vitals'
             breached == IF Len(vd) = 0 THEN {} ELSE C2_Breached(vd[Len(vd)])
             k == Cardinality(breached)
             n == Len(alerts')
         IN  IF k = 0 THEN alerts' = alerts
             ELSE /\ n >= k
                  /\ \A type \in breached :
                       \E i \in (n - k + 1)..n :
                          /\ alerts'[i].type = type
                          /\ alerts'[i].severity = C2_Severity(type)
                          /\ ~alerts'[i].acknowledged
                          /\ alerts'[i].timestamp = vd[Len(vd)].timestamp
                          /\ \A j \in (n - k + 1)..n :
                               alerts'[j].type = type => j = i
                  /\ \A i \in (n - k + 1)..n : alerts'[i].type \in breached
                  /\ n - k <= Len(alerts)
                  /\ SubSeq(alerts', 1, n - k)
                       = SubSeq(alerts, Len(alerts) - (n - k) + 1, Len(alerts))]_vars

\* C2 witness: a call on a list whose latest sample breaches all three
\* thresholds while an earlier one breaches none, after an earlier call
\* had already created alerts.
C2_Witness ==
    /\ Len(vitals) = 2
    /\ vitals[1].MAP >= 65 /\ vitals[1].HR <= 100 /\ vitals[1].SpO2 >= 95
    /\ vitals[2].MAP < 65 /\ vitals[2].HR > 100 /\ vitals[2].SpO2 < 95
    /\ Len(alerts) > 3

\* C3: a click on the ACK button of an alert sets acknowledged on the alert
\* with that id and on no other, changing nothing else; and no step at all
\* (poll or click) turns an acknowledged alert that stays in the list back
\* into an unacknowledged one.
C3_AckOneAndNeverBack ==
    [][/\ \A i \in 1..Len(alerts) :
            AcknowledgeAlert(i) =>
              /\ Len(alerts') = Len(alerts)
              /\ alerts'[i] = [alerts[i] EXCEPT !.acknowledged = TRUE]
              /\ \A j \in 1..Len(alerts) : j # i => alerts'[j] = alerts[j]
       /\ \A i \in 1..Len(alerts), j \in 1..Len(alerts') :
            (alerts'[j].id = alerts[i].id /\ alerts[i].acknowledged)
              => alerts'[j].acknowledged]_vars

\* C3 witness: among three or more alerts, two of the same type, exactly one
\* of the two acknowledged.
C3_Witness ==
    /\ Len(alerts) >= 3
    /\ \E i, j \in 1..Len(alerts) :
         /\ i # j
         /\ alerts[i].type = alerts[j].type
         /\ alerts[i].acknowledged /\ ~alerts[j].acknowledged

\* C4 as stated: no step removes an alert from the list.
C4_NeverDiscarded ==
    [][\A i \in 1..Len(alerts) :
         \E j \in 1..Len(alerts') : alerts'[j].id = alerts[i].id]_vars

\* C4 as amended: a step keeps, in order, at least the 10 most recent alerts
\* of the list; and a step that adds no alert (an acknowledgement, a poll
\* that breaches nothing) keeps them all.
C4_KeepsLastTen ==
    [][LET kept == SliceLast(alerts, 10)
           Ids(as) == [i \in 1..Len(as) |-> as[i].id]
           addsNone == \A j \in 1..Len(alerts') :
                          \E i \in 1..Len(alerts) : alerts[i].id = alerts'[j].id
       IN  /\ Len(alerts') >= Len(kept)
           /\ \/ SubSeq(Ids(alerts'), 1, Len(kept)) = Ids(kept)
              \/ Ids(alerts') = Ids(alerts)
           /\ addsNone => Ids(alerts') = Ids(alerts)]_vars

\* C4 witness: alerts have been discarded, one of them unacknowledged at the
\* time (nothing in the list is acknowledged).
C4_Witness ==
    /\ alertsCreated > Len(alerts)
    /\ \A i \in 1..Len(alerts) : ~alerts[i].acknowledged

(***************************************************************************)
(* Properties of AlertsPanel                                               *)
(***************************************************************************)
\* C5 as stated: alert thresholds are customizable, that is, for some events
\* list some change of a rule (its enabled flag, vital, condition or
\* threshold) changes the alerts the panel reports.
C5_RulesChangeReportedAlerts ==
    \E evs \in EventLists(now) :
        \/ \E ruleId \in RuleIds :
             PanelRender(evs, ToggledRules(alertRules, ruleId),
                         acknowledgedAlerts, now).alerts
               # PanelRender(evs, alertRules, acknowledgedAlerts, now).alerts
        \/ \E ruleId \in RuleIds, field \in RuleFields :
           \E value \in RuleValues(field) :
             PanelRender(evs, UpdatedRules(alertRules, ruleId, field, value),
                         acknowledgedAlerts, now).alerts
               # PanelRender(evs, alertRules, acknowledgedAlerts, now).alerts

\* C14: every render of the panel completes, and its processedAlerts are:
\* all = the events less than an hour old, active = those of severity HIGH
\* whose id is not acknowledged, warnings = those of severity MEDIUM whose id
\* is not acknowledged.
C14_RenderCompletes ==
    LET shown == PanelRender(events, alertRules, acknowledgedAlerts, now).alerts
        recent == SelectSeq(events, LAMBDA ev : now - ev.timestamp < 3600000)
    IN  /\ ~panelThrew
        /\ ~shown.threw
        /\ shown.all = recent
        /\ shown.active =
             SelectSeq(recent, LAMBDA ev : /\ ev.severity = "HIGH"
                                           /\ GetEventId(ev) \notin acknowledgedAlerts)
        /\ shown.warnings =
             SelectSeq(recent, LAMBDA ev : /\ ev.severity = "MEDIUM"
                                           /\ GetEventId(ev) \notin acknowledgedAlerts)

(***************************************************************************)
(* Properties of ChatPanel                                                 *)
(***************************************************************************)
\* C6: when the /api/ask request fails (fetch rejects, the status is not OK,
\* or the body cannot be parsed), sendMessage appends exactly one assistant
\* message with the canned apology, confidence 0.0 and sources
\* ['Error Handler'], sets isLoading to false and issues no further request;
\* whenever a request settles, exactly one assistant message is appended and
\* isLoading is false; and every request issued settles in the end.
C6_FailureAnsweredOnce ==
    /\ [][/\ chatErrors' # chatErrors =>
               /\ messages' = Append(messages,
                     [role |-> "assistant",
                      content |-> <<"I apologize, but I'm currently unable to process your request. Please check the connection and try again.">>,
                      confidence |-> 0,
                      sources |-> <<"Error Handler">>])
               /\ isLoading' = FALSE
               /\ fetchCount' = fetchCount
               /\ pending' # pending /\ pending' \subseteq pending
          /\ pending' # pending /\ pending' \subseteq pending =>
               /\ Cardinality(pending') = Cardinality(pending) - 1
               /\ isLoading' = FALSE
               /\ Len(messages') = Len(messages) + 1
               /\ SubSeq(messages', 1, Len(messages)) = messages
               /\ messages'[Len(messages')].role = "assistant"
          /\ fetchCount' # fetchCount =>
               /\ Len(messages') = Len(messages) + 1
               /\ messages'[Len(messages')].role = "user"
               /\ isLoading']_vars
    /\ \A n \in 1..MaxSends :
         (\E r \in pending : r.n = n)
            ~> (~isLoading /\ ~\E r \in pending : r.n = n)

\* C6 witness: one request was sent and failed; the user's message is
\* followed by the apology and nothing is loading or pending.
C6_Witness ==
    /\ fetchCount = 1 /\ chatErrors = 1
    /\ pending = {} /\ ~isLoading
    /\ Len(messages) = 3
    /\ messages[2].role = "user"
    /\ messages[3] = ErrorMessage

(***************************************************************************)
(* Properties of the timers                                                *)
(***************************************************************************)
\* the components C7 names
C7_Pollers ==
    { "PatientSummary", "MultiPatientDashboard", "CompleteORBIT", "MobileApp" }

\* C7: the polling interval each of PatientSummary, MultiPatientDashboard,
\* the index page and MobileApp sets on mount is cleared on unmount: while
\* the component is not mounted no interval of it is set, and no callback of
\* such an interval runs.
C7_ClearedOnUnmount ==
    /\ [](\A c \in C7_Pollers :
             c \notin mounted => ~\E iv \in intervals : iv.owner = c)
    /\ [][(ticks' # ticks /\ lastTick' \in C7_Pollers)
             => lastTick' \in mounted]_vars

\* C7 witness: the interval of PatientSummary ran, the component was then
\* unmounted, and the interval of another component is still set.
C7_Witness ==
    /\ ticks = 1
    /\ lastTick = "PatientSummary"
    /\ "PatientSummary" \notin mounted
    /\ "MobileApp" \in mounted
    /\ \E iv \in intervals : iv.owner = "MobileApp"

\* C8 as stated: every interval that is set has a period of 3 to 15 seconds.
C8_PeriodsThreeToFifteen ==
    \A iv \in intervals : 3000 <= iv.period /\ iv.period <= 15000

\* C8 as amended: every interval that is set has a period of 3 to 30 seconds.
C8_PeriodsThreeToThirty ==
    \A iv \in intervals : 3000 <= iv.period /\ iv.period <= 30000

\* C8 witness: every one of the eight timers is set, the fastest (3 s) and
\* the slowest (30 s) among them.
C8_Witness ==
    /\ Cardinality(intervals) = 8
    /\ \E iv \in intervals : iv.period = 3000
    /\ \E iv \in intervals : iv.period = 30000

(***************************************************************************)
(* Properties of MultiPatientDashboard                                     *)
(***************************************************************************)
\* the ids of the patients of ps whose status is in sts
C9_IdsWithStatus(ps, sts) ==
    { ps[i].id : i \in { k \in 1..Len(ps) : ps[k].status \in sts } }

\* C9: with sortBy = 'risk' the patients displayed are in non-increasing
\* riskScore order; with filterStatus 'CRITICAL' or 'WARNING' exactly the
\* patients of that status are displayed, and with 'ALL' every patient, each
\* once; choosing a sort key or a filter leaves the patients state unchanged.
C9_RiskOrderAndFilter ==
    /\ [](LET shown == SortedAndFilteredPatients(patients, sortBy, filterStatus)
              wanted == IF filterStatus = "ALL"
                        THEN { patients[i].id : i \in 1..Len(patients) }
                        ELSE C9_IdsWithStatus(patients, {filterStatus})
          IN  /\ sortBy = "risk" =>
                   \A i, j \in 1..Len(shown) :
                      i < j => shown[i].riskScore >= shown[j].riskScore
              /\ { shown[i].id : i \in 1..Len(shown) } = wanted
              /\ Len(shown) = Cardinality(wanted)
              /\ \A i \in 1..Len(shown) :
                   \E k \in 1..Len(patients) : shown[i] = patients[k])
    /\ [][(sortBy' # sortBy \/ filterStatus' # filterStatus)
             => patients' = patients]_vars

\* C9 witness: after an update, all four patients are shown by risk, in an
\* order that is not the order of the patients state, two of them with
\* different scores.
C9_Witness ==
    /\ sortBy = "risk" /\ filterStatus = "ALL"
    /\ Len(patients) = 4
    /\ patients[1].riskScore = 0 /\ patients[2].riskScore > 0
    /\ SortedAndFilteredPatients(patients, sortBy, filterStatus) # patients

\* p without its vitals and riskScore
C10_Rest(p) == [f \in DOMAIN p \ {"vitals", "riskScore"} |-> p[f]]

\* C10: once the patients are loaded no step (in particular no update tick)
\* changes the number or the order of the patients, nor any field of a
\* patient other than vitals and riskScore.
C10_TickKeepsTheRest ==
    [][patients # <<>> =>
         /\ Len(patients') = Len(patients)
         /\ \A i \in 1..Len(patients) :
              C10_Rest(patients'[i]) = C10_Rest(patients[i])]_vars

\* C10 witness: updates have replaced every initial risk score (PAT-002 has
\* reached the cap of 1.0) while its alert is still unacknowledged.
C10_Witness ==
    /\ Len(patients) = 4
    /\ patients[2].riskScore = 100
    /\ patients[1].riskScore = 0
    /\ patients[3].riskScore = 0
    /\ patients[4].riskScore = 0
    /\ ~patients[2].alerts[1].acknowledged
    /\ patients[3].alerts[1].acknowledged


(***************************************************************************)
(* Properties of the installer                                             *)
(***************************************************************************)
\* v >= min, comparing major, then minor, then patch as numbers
C11_AtLeast(v, min) ==
    \/ v[1] > min[1]
    \/ v[1] = min[1] /\ v[2] > min[2]
    \/ v[1] = min[1] /\ v[2] = min[2] /\ v[3] >= min[3]

\* C11: version_compare(min, v) returns success (0) exactly when v >= min in
\* the major.minor.patch order, for every pair of versions; hence
\* check_requirements accepts an installed Node.js exactly when its version is
\* at least 18.0.0 and an installed Python exactly when it is at least 3.11.0.
C11_AcceptsExactlyFromMinimum ==
    /\ compared.called =>
         (compared.rc = 0 <=> C11_AtLeast(compared.version2, compared.version1))
    /\ requirements.checked =>
         /\ requirements.nodeAccepted <=>
              /\ requirements.node.installed
              /\ C11_AtLeast(requirements.node.version, <<18, 0, 0>>)
         /\ requirements.pythonAccepted <=>
              /\ requirements.python.installed
              /\ C11_AtLeast(requirements.python.version, <<3, 11, 0>>)

\* C11 witness: version_compare has accepted a version whose major is larger
\* and whose minor and patch are smaller than the minimum's, and
\* check_requirements has accepted Node.js 20.0.0 and rejected Python 3.10.12.
C11_Witness ==
    /\ compared.called
    /\ compared.version1 = <<1, 2, 1>> /\ compared.version2 = <<2, 0, 0>>
    /\ compared.rc = 0
    /\ requirements.checked
    /\ requirements.node = Tool(TRUE, <<20, 0, 0>>) /\ requirements.nodeAccepted
    /\ requirements.python = Tool(TRUE, <<3, 10, 12>>)
    /\ ~requirements.pythonAccepted


(***************************************************************************)
(* Properties of calculateRiskScore                                        *)
(***************************************************************************)
\* [condition], in hundredths of `weight`
C12_Term(condition, weight) == IF condition THEN weight ELSE 0

\* the indices of the unacknowledged alerts of patient p
C12_Unacknowledged(p) == {i \in 1..Len(p.alerts) : ~p.alerts[i].acknowledged}

\* C12: calculateRiskScore(patient), in hundredths, is min(100, 30[MAP<65] +
\* 20[MAP<55] + 20[HR>100] + 20[HR>120] + 30[SpO2<95] + 30[SpO2<90] + 10 * the
\* number of unacknowledged alerts); it lies within 0..100, is the same with
\* the acknowledged alerts removed, and is 0 exactly when MAP >= 65, HR <= 100,
\* SpO2 >= 95 and no alert is unacknowledged.
C12_RiskScoreFormula ==
    scored.called =>
      LET p == scored.patient
          v == p.vitals
          sum == C12_Term(v.MAP < 65, 30) + C12_Term(v.MAP < 55, 20)
               + C12_Term(v.HR > 100, 20) + C12_Term(v.HR > 120, 20)
               + C12_Term(v.SpO2 < 95, 30) + C12_Term(v.SpO2 < 90, 30)
               + 10 * Cardinality(C12_Unacknowledged(p))
          open == [p EXCEPT !.alerts = SelectSeq(@, LAMBDA a : ~a.acknowledged)]
      IN  /\ scored.score = IF sum < 100 THEN sum ELSE 100
          /\ scored.score \in 0..100
          /\ CalculateRiskScore(open) = scored.score
          /\ scored.score = 0 <=>
               /\ v.MAP >= 65 /\ v.HR <= 100 /\ v.SpO2 >= 95
               /\ C12_Unacknowledged(p) = {}

\* C12 witness: a patient with healthy vitals, one acknowledged and one
\* unacknowledged alert has been scored 0.1.
C12_Witness ==
    /\ scored.called
    /\ scored.patient.vitals = WardVitals(65, 100, 95)
    /\ Len(scored.patient.alerts) = 2
    /\ scored.patient.alerts[1].acknowledged
    /\ ~scored.patient.alerts[2].acknowledged
    /\ scored.score = 10


C16_FetchOutcomes ==
    [][/\ forecastFetches' # forecastFetches => error' = <<>>
       /\ ForecastFails =>
            /\ loading' = FALSE
            /\ error' # <<>>
            /\ forecastData' = forecastData
            /\ forecastFetches' = forecastFetches
       /\ ForecastSucceeds =>
            /\ loading' = FALSE
            /\ \E r \in forecastPending \ forecastPending' : forecastData' = <<r>>
            /\ error' = <<>>]_vars


\* C17: while the component is mounted with autoRefresh on exactly one refresh
\* interval (of 15 seconds) is active; while autoRefresh is off, and after
\* unmount, none is.
C17_OneRefreshInterval ==
    /\ IntervalPeriod("RiskForecast") = 15000
    /\ forecastMounted /\ autoRefresh => Cardinality(refreshIntervals) = 1
    /\ forecastMounted /\ ~autoRefresh => refreshIntervals = {}
    /\ ~forecastMounted => refreshIntervals = {}

\* C17 witness: auto-refresh has been switched off and on again, and the only
\* interval active is the one the third run of the effect has set.
C17_Witness ==
    /\ forecastMounted /\ autoRefresh
    /\ selectedMetric = "MAP"
    /\ forecastFetches = 3
    /\ refreshIntervals = {3}
    /\ effectCleanup = <<3>>


(***************************************************************************)
(* Properties of HealthKitIntegration                                      *)
(***************************************************************************)
\* C18: without HealthKit requestPermissions resolves to false and the
\* permissions stay empty; getRealtimeVitals always resolves to a vitals
\* record, never to null: to mock vitals when HealthKit is unavailable or no
\* permission is held, and to queried vitals exactly when HealthKit is
\* available and a permission is held.
C18_SafeFallback ==
    [][/\ ~healthKit.isAvailable /\ RequestPermissions =>
            /\ hkLog' = Append(hkLog, Resolved("requestPermissions", FALSE, <<>>))
            /\ healthKit'.permissions = {}
       /\ ~healthKit'.isAvailable => healthKit'.permissions = {}
       /\ GetRealtimeVitals =>
            /\ Len(hkLog') = Len(hkLog) + 1
            /\ LET r == hkLog'[Len(hkLog')]
               IN  /\ r.method = "getRealtimeVitals"
                   /\ r.vitals # <<>>
                   /\ r.vitals[1].madeBy = "queryHealthKitData" <=>
                        healthKit.isAvailable /\ healthKit.permissions # {}
                   /\ r.vitals[1].madeBy = "generateMockVitals" <=>
                        ~healthKit.isAvailable \/ healthKit.permissions = {}]_vars

\* C18 witness: on a device without HealthKit requestPermissions has resolved
\* to false and getRealtimeVitals has then resolved to mock vitals.
C18_Witness ==
    /\ ~healthKit.isAvailable /\ healthKit.permissions = {}
    /\ Len(hkLog) = 2
    /\ hkLog[1] = Resolved("requestPermissions", FALSE, <<>>)
    /\ hkLog[2].method = "getRealtimeVitals"
    /\ hkLog[2].vitals # <<>>
    /\ hkLog[2].vitals[1].madeBy = "generateMockVitals"


(***************************************************************************)
(* Properties of the voice command system                                  *)
(***************************************************************************)
\* C19: a final transcript equal to a pattern of an advertised command makes
\* processCommand execute that command and no other.
C19_PatternTriggersItsCommand ==
    \A i \in 1..Len(GetAvailableCommands) :
      \A p \in 1..Len(GetAvailableCommands[i].patterns) :
        voice.transcript = GetAvailableCommands[i].patterns[p] =>
          /\ voice.executed = i
          /\ voice.calls = Commands[i].calls \o
                 (IF voice.context.vitals THEN Commands[i].withVitals ELSE <<>>)

\* C20: after the transcript "help" (the word the not-recognized message tells
\* the user to say) no command of category 'emergency' has been executed and
\* triggerEmergency has not been called.
C20_HelpIsNotAnEmergency ==
    Trim(ToLowerCase(voice.transcript)) = <<"h", "e", "l", "p">> =>
      /\ voice.executed # 0 => Commands[voice.executed].category # "emergency"
      /\ \A k \in 1..Len(voice.calls) : voice.calls[k] # "triggerEmergency"


(***************************************************************************)
(* Properties of the generated landing page                                *)
(***************************************************************************)
\* C21 as stated: status never returns to 'connecting' and is not
\* 'connecting' once a poll has completed; when a poll completes status is
\* 'connected' if its /api/health responded OK and 'error' otherwise; vitals
\* is replaced only by a poll whose two requests responded OK.
C21_StatusFollowsHealth ==
    [][/\ home.status # "connecting" => home'.status # "connecting"
       /\ home'.completed > 0 => home'.status # "connecting"
       /\ home'.completed # home.completed =>
            /\ home'.status = IF home'.last.health = "ok" THEN "connected" ELSE "error"
            /\ home'.vitals # home.vitals =>
                 home'.last.health = "ok" /\ home'.last.vitals = "ok"]_vars

\* C21 amended: status never returns to 'connecting' and is not 'connecting'
\* once a poll has completed; a poll sets status to 'connected' when its
\* /api/health responds OK, and to 'error' when /api/health responds not OK
\* or is rejected and also when its /api/vitals request is rejected or its
\* body is not JSON; a poll whose /api/vitals responds (OK or not) leaves the
\* status as it is; vitals changes only in a poll whose two requests
\* responded OK.
C21_StatusFollowsBothRequests ==
    [][/\ home.status # "connecting" => home'.status # "connecting"
       /\ home'.completed > 0 => home'.status # "connecting"
       /\ (HealthResponds /\ home'.completed = home.completed) =>
            home'.status = "connected"
       /\ home'.completed # home.completed =>
            /\ home'.last.health # "ok" => home'.status = "error"
            /\ home'.last.vitals \in {"rejected", "badJson"} => home'.status = "error"
            /\ home'.last.vitals \in {"ok", "notOk"} => home'.status = home.status
            /\ home'.vitals # home.vitals =>
                 home'.last.health = "ok" /\ home'.last.vitals = "ok"
            /\ home'.last.vitals # "ok" => home'.vitals = home.vitals]_vars

\* C21 witness: the first poll found /api/health OK and then had its
\* /api/vitals request rejected: it has completed with status 'error' and
\* the vitals still empty, while the second poll is in flight.
C21_Witness ==
    /\ home.completed = 1
    /\ home.last = [id |-> 1, health |-> "ok", vitals |-> "rejected"]
    /\ home.status = "error"
    /\ home.vitals = <<>>
    /\ home.polls = {[id |-> 2, stage |-> "health"]}


(***************************************************************************)
(* Properties of the chat of the main dashboard                            *)
(***************************************************************************)
\* C22 as stated: when the timer of a Quick Question clicked while no reply
\* was pending runs, a user message whose content is that question is
\* appended to chatMessages and a reply is pending (chatLoading, with exactly
\* one more reply timer).
C22_QuickQuestionIsAsked ==
    [][\A t \in dashChat.timers :
         (t.kind = "send" /\ ~t.loading /\ t \notin dashChat'.timers) =>
            /\ dashChat'.chatMessages =
                 Append(dashChat.chatMessages, [role |-> "user", content |-> t.clicked])
            /\ dashChat'.chatLoading
            /\ Cardinality({u \in dashChat'.timers : u.kind = "reply"}) =
                 Cardinality({u \in dashChat.timers : u.kind = "reply"}) + 1]_vars


(***************************************************************************)
(* Properties of the sendMessage guard of ChatPanel                        *)
(***************************************************************************)
\* C23: a sendMessage call with blank content, or made while a request is
\* loading, leaves messages, inputMessage and isLoading unchanged and issues
\* no request; and at most one /api/ask request is outstanding after every
\* step of form submits, quick-question clicks, direct calls and responses.
\* The contents are those the callers pass: the input (blank or not) and the
\* quick questions.
C23_GuardKeepsOneRequest ==
    [][/\ \A content \in {inputMessage} \cup QuickQuestions :
            ((Trim(content) = <<>> \/ isLoading) /\ SendMessage(content)) =>
                /\ messages' = messages
                /\ inputMessage' = inputMessage
                /\ isLoading' = isLoading
                /\ pending' = pending
                /\ fetchCount' = fetchCount
       /\ Cardinality(pending') <= 1]_vars

\* C23 witness: sendMessage was called with a quick question while the
\* request of an earlier message was loading: that request is still the only
\* one outstanding and the only user message is the earlier one.
C23_Witness ==
    /\ lastCall.made
    /\ lastCall.content \in QuickQuestions
    /\ isLoading
    /\ Cardinality(pending) = 1
    /\ fetchCount = 1
    /\ inputMessage = <<>>
    /\ Len(messages) = 2
    /\ messages[2].role = "user"
    /\ \A r \in pending : r.query # lastCall.content

====
